---- MODULE Spec2Model ----
(***************************************************************************)
(* Model of the fraud-guidance evaluation scripts:                         *)
(*   G-technical-evaluation/standard_cosine_evaluation.py                  *)
(*   H-statistical-analysis/domain_weighted_evaluation.py                  *)
(*   F-evaluation-rubrics/core_performance_analysis.py                     *)
(* Texts are sequences of one-character strings, so that lower-casing,     *)
(* substring tests and the phone-number patterns are computed character by *)
(* character.  Scores are fixed-point integers: the float 1.0 is One.      *)
(***************************************************************************)
EXTENDS Integers, Sequences, FiniteSets, TLC

VARIABLES
    evaluator,          \* which script runs: "standard", "domain" or "manual"
    pc,                 \* position of the run in the script
    ground_truth_data,  \* StandardCosineEvaluator.ground_truth_data / the domain run's ground_truth
    fraud_categories,   \* StandardCosineEvaluator.fraud_categories
    evaluation_data,    \* the evaluation questions of the run
    qi,                 \* number of questions the scoring loop has consumed
    results,            \* the per-question results collected so far
    log,                \* the messages logged so far (errors, warnings, the category mapping)
    embedding_seed,     \* which deterministic embedding model is loaded
    dataset,            \* the reference dataset files on disk, in the order the run tries
                        \* them: whether each exists, and its content
    entity_call,        \* last observed call of extract_entities, calculate_entity_accuracy
                        \* and apply_domain_weights
    grading_data,       \* CorePerformanceAnalyzer.grading_data
    results_df,         \* CorePerformanceAnalyzer.results_df
    metrics,            \* the value returned by calculate_core_metrics
    question_file,      \* the questions on disk: the complete_evaluation_data module of the
                        \* standard run, Models_Responses.json of the domain run
    summary             \* what a run of an evaluator returns: results and summary statistics

vars == <<evaluator, pc, ground_truth_data, fraud_categories, evaluation_data, qi,
          results, log, embedding_seed, dataset, entity_call, grading_data, results_df,
          metrics, question_file, summary>>

(***************************************************************************)
(* Bounds of the model.                                                    *)
(***************************************************************************)
MaxCorpus == 2
MaxQuestions == 2
MaxSeed == 2
MaxGraded == 3

(***************************************************************************)
(* Fixed-point scores.                                                     *)
(***************************************************************************)
One == 3600
\* np.nan, a value no score takes
NaN == 0 - One * One

(***************************************************************************)
(* Characters and str.lower().                                             *)
(***************************************************************************)
UpperLetters == <<"A","B","C","D","E","F","G","H","I","J","K","L","M","N","O","P","Q","R","S","T","U","V","W","X","Y","Z">>
LowerLetters == <<"a","b","c","d","e","f","g","h","i","j","k","l","m","n","o","p","q","r","s","t","u","v","w","x","y","z">>
Digits == {"0","1","2","3","4","5","6","7","8","9"}
Whitespace == {" ", "\t", "\n"}

IsUpper(c) == \E i \in 1..Len(UpperLetters) : UpperLetters[i] = c
IsLower(c) == \E i \in 1..Len(LowerLetters) : LowerLetters[i] = c
LowerChar(c) == IF IsUpper(c) THEN LowerLetters[CHOOSE i \in 1..Len(UpperLetters) : UpperLetters[i] = c] ELSE c
UpperChar(c) == IF IsLower(c) THEN UpperLetters[CHOOSE i \in 1..Len(LowerLetters) : LowerLetters[i] = c] ELSE c

\* str.lower()
Lower(text) == [i \in 1..Len(text) |-> LowerChar(text[i])]

\* other casings of a text (inputs of the case-insensitivity checks)
Upper(text) == [i \in 1..Len(text) |-> UpperChar(text[i])]
SwapCase(text) == [i \in 1..Len(text) |-> IF IsUpper(text[i]) THEN LowerChar(text[i]) ELSE UpperChar(text[i])]

\* `term in text` of Python: term occurs at some offset of text
OccursAt(term, text, i) ==
    /\ i + Len(term) - 1 <= Len(text)
    /\ \A k \in 1..Len(term) : text[i + k - 1] = term[k]

In(term, text) == \E i \in 1..(Len(text) + 1) : OccursAt(term, text, i)

(***************************************************************************)
(* Sample texts the inputs are drawn from.                                 *)
(***************************************************************************)
Txt == [
    empty |->
        << >>,
    report |->
        <<"H","o","w"," ","d","o"," ","I"," ","r","e","p","o","r","t"," ","f","r","a","u","d","?">>,
    call_af |->
        <<"C","a","l","l"," ","A","c","t","i","o","n"," ","F","r","a","u","d"," ","o","n"," ","0","3","0","0"," ","1","2","3"," ","2","0","4","0">>,
    feel |->
        <<"I"," ","F","E","E","L"," ","s","c","a","r","e","d">>,
    not_alone |->
        <<"Y","o","u"," ","a","r","e"," ","n","o","t"," ","a","l","o","n","e">>,
    hello |->
        <<"H","e","l","l","o">>,
    thanks |->
        <<"T","h","a","n","k","s">>,
    happened |->
        <<"W","h","a","t"," ","h","a","p","p","e","n","e","d">>,
    legal |->
        <<"S","e","e","k"," ","L","e","g","a","l"," ","A","d","v","i","c","e">>,
    british |->
        <<"I","s"," ","t","h","i","s"," ","B","r","i","t","i","s","h","?">>,
    no_idea |->
        <<"N","o"," ","i","d","e","a">> ]

Label == [
    uk |->
        <<"U","K","-","S","p","e","c","i","f","i","c"," ","K","n","o","w","l","e","d","g","e"," ","A","s","s","e","s","s","m","e","n","t">>,
    conv |->
        <<"c","o","n","v","e","r","s","a","t","i","o","n","a","l"," ","Q","U","A","L","I","T","Y">>,
    typ |->
        <<"C","y","b","e","r"," ","F","r","a","u","d"," ","T","y","p","o","l","o","g","y"," ","C","o","v","e","r","a","g","e">>,
    prof |->
        <<"P","r","o","f","e","s","s","i","o","n","a","l"," ","B","o","u","n","d","a","r","i","e","s">>,
    prof_uk |->
        <<"P","r","o","f","e","s","s","i","o","n","a","l"," ","B","o","u","n","d","a","r","i","e","s"," ","/"," ","U","K","-","S","p","e","c","i","f","i","c"," ","K","n","o","w","l","e","d","g","e">>,
    typ_conv |->
        <<"C","y","b","e","r"," ","F","r","a","u","d"," ","T","y","p","o","l","o","g","y"," ","a","n","d"," ","C","o","n","v","e","r","s","a","t","i","o","n","a","l"," ","Q","u","a","l","i","t","y">>,
    other |->
        <<"O","t","h","e","r">> ]


\* sequences over a set, up to a length
SeqsUpTo(S, n) == UNION {[1..k -> S] : k \in 0..n}

(***************************************************************************)
(* StandardCosineEvaluator: reference corpus and category buckets.         *)
(***************************************************************************)
QAPair(i, o) == [instruction |-> i, output |-> o]

\* the length best_reference_match is cut to, and what is put after the cut
TruncLen == 200
Ellipsis == <<".", ".", ".">>

\* an answer of more than 200 characters: "Seek Legal Advice" and a rule of dashes
LongAdvice == Txt.legal \o [k \in 1..(TruncLen + 1 - Len(Txt.legal)) |-> "-"]

PairPool == {
    QAPair(Txt.feel, Txt.not_alone),
    QAPair(Txt.hello, Txt.thanks),
    QAPair(Txt.happened, Txt.legal),
    QAPair(Txt.british, Txt.thanks) }

\* corpora of up to MaxCorpus pairs, and one whose second answer is the long one
Corpora ==
    SeqsUpTo(PairPool, MaxCorpus)
        \cup {<<QAPair(Txt.feel, Txt.not_alone), QAPair(Txt.happened, LongAdvice)>>}

CategoryKeys == {"uk_knowledge", "conversational_quality", "fraud_typology",
                 "professional_boundaries", "general"}

UkTriggers == <<<<"a","c","t","i","o","n"," ","f","r","a","u","d">>,
        <<"0","3","0","0"," ","1","2","3"," ","2","0","4","0">>,
        <<"f","c","a">>,
        <<"u","k">>,
        <<"b","r","i","t","i","s","h">>>>
TypologyTriggers == <<<<"s","c","a","m">>,
        <<"f","r","a","u","d">>,
        <<"p","h","i","s","h","i","n","g">>,
        <<"i","n","v","e","s","t","m","e","n","t">>,
        <<"r","o","m","a","n","c","e">>,
        <<"a","p","p">>>>
ConversationalTriggers == <<<<"f","e","e","l">>,
        <<"e","m","b","a","r","r","a","s","s","e","d">>,
        <<"s","c","a","r","e","d">>,
        <<"h","e","l","p">>,
        <<"s","u","p","p","o","r","t">>>>
BoundaryTriggers == <<<<"l","e","g","a","l">>,
        <<"a","d","v","i","c","e">>,
        <<"s","o","l","i","c","i","t","o","r">>,
        <<"m","e","d","i","c","a","l">>,
        <<"m","e","n","t","a","l"," ","h","e","a","l","t","h">>>>

\* any(term in instruction_lower or term in output_lower for term in [...])
AnyTrigger(triggers, item) ==
    \E k \in 1..Len(triggers) :
        \/ In(triggers[k], Lower(item.instruction))
        \/ In(triggers[k], Lower(item.output))

AppendTo(categories, key, output) == [categories EXCEPT ![key] = Append(@, output)]

\* a chain of elif instead of independent ifs
OrganizeItemElif(categories, item) ==
    LET c1 == AppendTo(categories, "general", item.output)
    IN  IF AnyTrigger(UkTriggers, item) THEN AppendTo(c1, "uk_knowledge", item.output)
        ELSE IF AnyTrigger(TypologyTriggers, item) THEN AppendTo(c1, "fraud_typology", item.output)
        ELSE IF AnyTrigger(ConversationalTriggers, item) THEN AppendTo(c1, "conversational_quality", item.output)
        ELSE IF AnyTrigger(BoundaryTriggers, item) THEN AppendTo(c1, "professional_boundaries", item.output)
        ELSE c1

\* general used as the bucket of the pairs no category takes
OrganizeItemGeneralRest(categories, item) ==
    LET c2 == IF AnyTrigger(UkTriggers, item)
              THEN AppendTo(categories, "uk_knowledge", item.output) ELSE categories
        c3 == IF AnyTrigger(TypologyTriggers, item)
              THEN AppendTo(c2, "fraud_typology", item.output) ELSE c2
        c4 == IF AnyTrigger(ConversationalTriggers, item)
              THEN AppendTo(c3, "conversational_quality", item.output) ELSE c3
        c5 == IF AnyTrigger(BoundaryTriggers, item)
              THEN AppendTo(c4, "professional_boundaries", item.output) ELSE c4
    IN  IF c5 = categories THEN AppendTo(c5, "general", item.output) ELSE c5

\* the body of the loop over ground_truth_data
OrganizeItem(categories, item) ==
    LET c1 == AppendTo(categories, "general", item.output)
        c2 == IF AnyTrigger(UkTriggers, item)
              THEN AppendTo(c1, "uk_knowledge", item.output) ELSE c1
        c3 == IF AnyTrigger(TypologyTriggers, item)
              THEN AppendTo(c2, "fraud_typology", item.output) ELSE c2
        c4 == IF AnyTrigger(ConversationalTriggers, item)
              THEN AppendTo(c3, "conversational_quality", item.output) ELSE c3
        c5 == IF AnyTrigger(BoundaryTriggers, item)
              THEN AppendTo(c4, "professional_boundaries", item.output) ELSE c4
    IN  c5

RECURSIVE OrganizeLoop(_, _, _)
OrganizeLoop(data, i, categories) ==
    IF i > Len(data) THEN categories
    ELSE OrganizeLoop(data, i + 1, OrganizeItem(categories, data[i]))

organize_by_categories(data) == OrganizeLoop(data, 1, [k \in CategoryKeys |-> << >>])

(***************************************************************************)
(* StandardCosineEvaluator: evaluation questions and category mapping.     *)
(***************************************************************************)
Question(id, label, bm, fm) == [question_id |-> id, category |-> label, BM |-> bm, FM |-> fm]

QuestionOrder == <<
    Question("Q1", Label.uk, Txt.call_af, Txt.thanks),
    Question("Q2", Label.conv, Txt.thanks, Txt.not_alone),
    Question("Q3", Label.prof_uk, Txt.no_idea, Txt.legal),
    Question("Q4", Label.other, Txt.hello, Txt.hello) >>

\* the questions of `order` at the positions `picked`, in the order of the file
Picked(order, picked) ==
    LET RECURSIVE From(_)
        From(i) == IF i > Len(order) THEN << >>
                   ELSE IF i \in picked THEN <<order[i]>> \o From(i + 1)
                   ELSE From(i + 1)
    IN  From(1)

\* files of up to MaxQuestions questions, each question_id at most once
QuestionLists ==
    {Picked(QuestionOrder, picked) :
        picked \in {S \in SUBSET (1..Len(QuestionOrder)) : Cardinality(S) <= MaxQuestions}}

\* the records of the complete_evaluation_data module, in the order of the module: one
\* repeats the id of a built-in question, two share an id of their own
SupplementOrder == <<
    Question("Q1", Label.typ, Txt.legal, Txt.call_af),
    Question("Q6", Label.prof, Txt.not_alone, Txt.not_alone),
    Question("Q6", Label.conv, Txt.thanks, Txt.feel) >>

\* the rules tested in another order
MappingReordered(evaluation_category) ==
    LET category_lower == Lower(evaluation_category)
    IN  IF In(<<"p","r","o","f","e","s","s","i","o","n","a","l"," ","b","o","u","n","d","a","r","i","e","s">>, category_lower)
            THEN "professional_boundaries"
        ELSE IF In(<<"c","y","b","e","r"," ","f","r","a","u","d"," ","t","y","p","o","l","o","g","y">>, category_lower)
            THEN "fraud_typology"
        ELSE IF In(<<"c","o","n","v","e","r","s","a","t","i","o","n","a","l"," ","q","u","a","l","i","t","y">>, category_lower)
            THEN "conversational_quality"
        ELSE IF In(<<"u","k","-","s","p","e","c","i","f","i","c"," ","k","n","o","w","l","e","d","g","e">>, category_lower)
            THEN "uk_knowledge"
        ELSE "general"

determine_category_mapping(evaluation_category) ==
    LET category_lower == Lower(evaluation_category)
    IN  IF In(<<"u","k","-","s","p","e","c","i","f","i","c"," ","k","n","o","w","l","e","d","g","e">>, category_lower)
            THEN "uk_knowledge"
        ELSE IF In(<<"c","o","n","v","e","r","s","a","t","i","o","n","a","l"," ","q","u","a","l","i","t","y">>, category_lower)
            THEN "conversational_quality"
        ELSE IF In(<<"c","y","b","e","r"," ","f","r","a","u","d"," ","t","y","p","o","l","o","g","y">>, category_lower)
            THEN "fraud_typology"
        ELSE IF In(<<"p","r","o","f","e","s","s","i","o","n","a","l"," ","b","o","u","n","d","a","r","i","e","s">>, category_lower)
            THEN "professional_boundaries"
        ELSE "general"

(***************************************************************************)
(* The sentence-embedding model and cosine similarity.  The model is an    *)
(* external library: it is a deterministic function of the text, here one  *)
(* of a family of functions selected by embedding_seed.  An embedding is a *)
(* direction (a multiple of 45 degrees); cosines are in tenths of One.     *)
(***************************************************************************)
Seeds == 1..MaxSeed
CosByAngle == <<10, 7, 0, -7, -10>>
NumDirections == 2 * (Len(CosByAngle) - 1)

Encode(text) == (embedding_seed * Len(text) + Len(SelectSeq(text, LAMBDA c : c = " "))) % NumDirections

cosine_similarity(a, b) ==
    LET d == IF a >= b THEN a - b ELSE b - a
        angle == IF d <= NumDirections - d THEN d ELSE NumDirections - d
    IN  (CosByAngle[angle + 1] * One) \div 10

(***************************************************************************)
(* StandardCosineEvaluator.evaluate_response_alignment                     *)
(***************************************************************************)
CoverageThreshold == (7 * One) \div 10

RECURSIVE SumSeq(_)
SumSeq(s) == IF s = << >> THEN 0 ELSE Head(s) + SumSeq(Tail(s))

RECURSIVE MaxFrom(_, _, _)
MaxFrom(s, i, best) ==
    IF i > Len(s) THEN best
    ELSE MaxFrom(s, i + 1, IF s[i] > best THEN s[i] ELSE best)

\* np.max / np.mean / np.argmax of a non-empty array
NpMax(s) == MaxFrom(s, 2, s[1])
NpMean(s) == SumSeq(s) \div Len(s)
RECURSIVE ArgMaxFrom(_, _, _)
ArgMaxFrom(s, i, besti) ==
    IF i > Len(s) THEN besti
    ELSE ArgMaxFrom(s, i + 1, IF s[i] > s[besti] THEN i ELSE besti)

\* the last index of the maximum
NpArgMaxLast(s) ==
    LET RECURSIVE LastFrom(_, _)
        LastFrom(i, besti) ==
            IF i > Len(s) THEN besti
            ELSE LastFrom(i + 1, IF s[i] >= s[besti] THEN i ELSE besti)
    IN  LastFrom(2, 1) - 1

NpArgMax(s) == ArgMaxFrom(s, 2, 1) - 1

\* dict.get(key, default)
DictGet(d, key, default) == IF key \in DOMAIN d THEN d[key] ELSE default

\* the bucket an evaluation reads
RelevantSources(fraud_category) ==
    DictGet(fraud_categories, fraud_category, fraud_categories["general"])

Similarities(response, sources) ==
    [i \in 1..Len(sources) |-> cosine_similarity(Encode(response), Encode(sources[i]))]

evaluate_response_alignment(response, fraud_category) ==
    LET relevant_sources == RelevantSources(fraud_category)
        similarities == Similarities(response, relevant_sources)
    IN  IF relevant_sources = << >>
        THEN [best_match_score |-> 0, average_alignment |-> 0, source_coverage |-> 0]
        ELSE [best_match_score |-> NpMax(similarities),
              average_alignment |-> NpMean(similarities),
              source_coverage |-> Cardinality({i \in 1..Len(similarities) :
                                                 similarities[i] > CoverageThreshold}),
              best_reference_idx |-> NpArgMax(similarities)]

\* evaluate_response_alignment logs a warning exactly when it returns the zero scores
AlignmentWarns(fraud_category) == RelevantSources(fraud_category) = << >>

(***************************************************************************)
(* DomainWeightedEvaluator: critical entities.                             *)
(***************************************************************************)
EntityText == [
    spaced |->
        <<"r","e","p","o","r","t"," ","t","o"," ","A","C","T","I","O","N"," ","F","R","A","U","D",":"," ","0","3","0","0"," "," ","1","2","3","\t","2","0","4","0">>,
    nospace |->
        <<"r","i","n","g"," ","0","3","0","0","1","2","3","2","0","4","0"," ","n","o","w">>,
    dial |->
        <<"D","i","a","l"," ","9","9","9"," ","o","r"," ","1","0","1">>,
    nobound |->
        <<"c","o","d","e"," ","9","9","9","0"," ","a","n","d"," ","1","1","0","1">>,
    fca |->
        <<"F","C","A"," ","0","8","0","0"," ","1","1","1"," ","6","7","6","8",","," ","P","S","R"," ","a","p","p"," ","c","o","d","e">>,
    samaritans |->
        <<"S","a","m","a","r","i","t","a","n","s"," ","1","1","6"," ","1","2","3"," ","/"," ","1","1","6","1","2","3">>,
    twice |->
        <<"0","3","0","0"," ","1","2","3"," ","2","0","4","0"," ","o","r"," ","0","3","0","0"," "," "," ","1","2","3"," ","2","0","4","0">>,
    orgs |->
        <<"A","c","t","i","o","n"," ","F","r","a","u","d",","," ","t","h","e"," ","F","C","A"," ","a","n","d"," ","V","i","c","t","i","m"," ","S","u","p","p","o","r","t">>,
    weights |->
        <<"R","e","p","o","r","t"," ","i","t",":"," ","A","u","t","h","o","r","i","s","e","d"," ","P","u","s","h"," ","P","a","y","m","e","n","t"," ","S","e","r","v","i","c","e","s"," ","R","e","g","u","l","a","t","i","o","n","s","."," ","R","E","P","O","R","T","!">> ]


EntityTexts == {Txt.empty, Txt.call_af, Txt.hello, EntityText.spaced, EntityText.nospace, EntityText.dial, EntityText.nobound,
                EntityText.fca, EntityText.samaritans, EntityText.twice, EntityText.orgs}

EntityCategories == <<"phone_numbers", "organizations", "procedures">>

\* _define_critical_entities
critical_entities == [
    phone_numbers |-> {<<"0","3","0","0"," ","1","2","3"," ","2","0","4","0">>,
        <<"9","9","9">>,
        <<"1","0","1">>,
        <<"0","8","0","0"," ","1","1","1"," ","6","7","6","8">>,
        <<"1","1","6"," ","1","2","3">>},
    organizations |-> {<<"a","c","t","i","o","n"," ","f","r","a","u","d">>,
        <<"f","c","a">>,
        <<"n","c","s","c">>,
        <<"p","s","r">>,
        <<"s","a","m","a","r","i","t","a","n","s">>,
        <<"v","i","c","t","i","m"," ","s","u","p","p","o","r","t">>},
    procedures |-> {<<"a","p","p"," ","c","o","d","e">>,
        <<"a","u","t","h","o","r","i","s","e","d"," ","p","u","s","h"," ","p","a","y","m","e","n","t">>,
        <<"p","a","y","m","e","n","t"," ","s","e","r","v","i","c","e","s"," ","r","e","g","u","l","a","t","i","o","n","s">>} ]

\* phone_patterns: digit groups separated by \s*, with or without \b at both ends
phone_patterns == <<
    [groups |-> <<<<"0","3","0","0">>, <<"1","2","3">>, <<"2","0","4","0">>>>, bounded |-> FALSE],
    [groups |-> <<<<"9","9","9">>>>, bounded |-> TRUE],
    [groups |-> <<<<"1","0","1">>>>, bounded |-> TRUE],
    [groups |-> <<<<"0","8","0","0">>, <<"1","1","1">>, <<"6","7","6","8">>>>, bounded |-> FALSE],
    [groups |-> <<<<"1","1","6">>, <<"1","2","3">>>>, bounded |-> TRUE] >>

\* \w and \s of the re module, on the characters of the model
IsWordChar(c) == IsUpper(c) \/ IsLower(c) \/ c \in Digits \/ c = "_"
IsSpace(c) == c \in Whitespace

\* \b at the gap before text[p]
WordBoundary(text, p) ==
    LET before == p > 1 /\ p - 1 <= Len(text) /\ IsWordChar(text[p - 1])
        after == p >= 1 /\ p <= Len(text) /\ IsWordChar(text[p])
    IN  before # after

\* \s* is greedy and the group after it starts with a digit: no backtracking
RECURSIVE SkipSpaces(_, _)
SkipSpaces(text, p) ==
    IF p <= Len(text) /\ IsSpace(text[p]) THEN SkipSpaces(text, p + 1) ELSE p

\* end (exclusive) of the match of groups[g..] starting at p, or 0
RECURSIVE MatchGroups(_, _, _, _)
MatchGroups(groups, g, text, p) ==
    IF ~OccursAt(groups[g], text, p) THEN 0
    ELSE IF g = Len(groups) THEN p + Len(groups[g])
    ELSE MatchGroups(groups, g + 1, text, SkipSpaces(text, p + Len(groups[g])))

MatchEnd(pattern, text, p) ==
    LET e == MatchGroups(pattern.groups, 1, text, p)
    IN  IF e = 0 THEN 0
        ELSE IF pattern.bounded /\ ~(WordBoundary(text, p) /\ WordBoundary(text, e)) THEN 0
        ELSE e

\* re.findall: the non-overlapping matches, scanning from the left
RECURSIVE FindAllFrom(_, _, _)
FindAllFrom(pattern, text, p) ==
    IF p > Len(text) THEN {}
    ELSE LET e == MatchEnd(pattern, text, p)
         IN  IF e = 0 THEN FindAllFrom(pattern, text, p + 1)
             ELSE {SubSeq(text, p, e - 1)} \cup FindAllFrom(pattern, text, e)

re_findall(pattern, text) == FindAllFrom(pattern, text, 1)

\* str.strip()
RECURSIVE StripLeft(_)
StripLeft(s) == IF s # << >> /\ IsSpace(Head(s)) THEN StripLeft(Tail(s)) ELSE s
RECURSIVE StripRight(_)
StripRight(s) == IF s # << >> /\ IsSpace(s[Len(s)]) THEN StripRight(SubSeq(s, 1, Len(s) - 1)) ELSE s
Strip(s) == StripRight(StripLeft(s))

\* re.sub(r'\s+', ' ', s)
RECURSIVE CollapseFrom(_, _, _)
CollapseFrom(s, i, out) ==
    IF i > Len(s) THEN out
    ELSE IF IsSpace(s[i])
         THEN CollapseFrom(s, i + 1, IF i > 1 /\ IsSpace(s[i - 1]) THEN out ELSE Append(out, " "))
         ELSE CollapseFrom(s, i + 1, Append(out, s[i]))

\* normalized = re.sub(r'\s+', ' ', match.strip())
Normalize(match) == CollapseFrom(Strip(match), 1, << >>)

ExtractPhones(text_lower) ==
    UNION {{Normalize(m) : m \in re_findall(phone_patterns[k], text_lower)} :
           k \in 1..Len(phone_patterns)}

\* the text searched as given
TextAsGiven(text) == text

\* text_lower = text.lower()
TextLower(text) == Lower(text)

ExtractTerms(category, text_lower) == {term \in critical_entities[category] : In(term, text_lower)}

\* only the categories with a match get a key
ExtractEntitiesSparse(text) ==
    LET full == [phone_numbers |-> ExtractPhones(TextLower(text)),
                 organizations |-> ExtractTerms("organizations", TextLower(text)),
                 procedures |-> ExtractTerms("procedures", TextLower(text))]
    IN  [k \in {c \in DOMAIN full : full[c] # {}} |-> full[k]]

extract_entities(text) ==
    [phone_numbers |-> ExtractPhones(TextLower(text)),
     organizations |-> ExtractTerms("organizations", TextLower(text)),
     procedures |-> ExtractTerms("procedures", TextLower(text))]

\* intersection over union
CategoryAccuracyIoU(response_set, reference_set) ==
    IF reference_set = {} THEN One
    ELSE IF response_set = {} THEN 0
    ELSE (Cardinality(response_set \cap reference_set) * One)
            \div Cardinality(response_set \cup reference_set)

\* the intersection over the response set
CategoryAccuracyPrecision(response_set, reference_set) ==
    IF reference_set = {} THEN One
    ELSE IF response_set = {} THEN 0
    ELSE (Cardinality(response_set \cap reference_set) * One) \div Cardinality(response_set)

\* the body of the loop of calculate_entity_accuracy
CategoryAccuracy(response_set, reference_set) ==
    IF reference_set = {} THEN One
    ELSE IF response_set = {} THEN 0
    ELSE (Cardinality(response_set \cap reference_set) * One) \div Cardinality(reference_set)

calculate_entity_accuracy(response_entities, reference_entities) ==
    [category \in {EntityCategories[k] : k \in 1..Len(EntityCategories)} |->
        CategoryAccuracy(DictGet(response_entities, category, {}),
                         DictGet(reference_entities, category, {}))]

CaseModes == {"upper", "lower", "swapcase"}
Recase(mode, text) ==
    IF mode = "upper" THEN Upper(text)
    ELSE IF mode = "lower" THEN Lower(text)
    ELSE SwapCase(text)

(***************************************************************************)
(* DomainWeightedEvaluator: domain weights.  Weights are in tenths, a      *)
(* weight multiplier in hundredths.                                        *)
(***************************************************************************)
\* _create_domain_weights: the five term tables
domain_weights == [
    critical_contacts |->
        (<<"0","3","0","0"," ","1","2","3"," ","2","0","4","0">> :> 50)
        @@ (<<"a","c","t","i","o","n"," ","f","r","a","u","d">> :> 40)
        @@ (<<"9","9","9">> :> 40)
        @@ (<<"1","0","1">> :> 30)
        @@ (<<"0","8","0","0"," ","1","1","1"," ","6","7","6","8">> :> 35)
        @@ (<<"1","1","6"," ","1","2","3">> :> 30),
    fraud_types |->
        (<<"a","p","p"," ","f","r","a","u","d">> :> 30)
        @@ (<<"a","u","t","h","o","r","i","s","e","d"," ","p","u","s","h"," ","p","a","y","m","e","n","t">> :> 30)
        @@ (<<"v","i","s","h","i","n","g">> :> 25)
        @@ (<<"v","o","i","c","e"," ","p","h","i","s","h","i","n","g">> :> 25)
        @@ (<<"r","o","m","a","n","c","e"," ","s","c","a","m">> :> 25)
        @@ (<<"r","o","m","a","n","c","e"," ","f","r","a","u","d">> :> 25)
        @@ (<<"i","n","v","e","s","t","m","e","n","t"," ","f","r","a","u","d">> :> 25)
        @@ (<<"p","u","r","c","h","a","s","e"," ","f","r","a","u","d">> :> 20)
        @@ (<<"i","d","e","n","t","i","t","y"," ","t","h","e","f","t">> :> 20),
    regulatory_terms |->
        (<<"p","s","r">> :> 30)
        @@ (<<"f","c","a">> :> 25)
        @@ (<<"n","c","s","c">> :> 20)
        @@ (<<"a","p","p"," ","c","o","d","e">> :> 25)
        @@ (<<"p","a","y","m","e","n","t"," ","s","e","r","v","i","c","e","s"," ","r","e","g","u","l","a","t","i","o","n","s">> :> 25)
        @@ (<<"f","i","n","a","n","c","i","a","l"," ","c","o","n","d","u","c","t"," ","a","u","t","h","o","r","i","t","y">> :> 25),
    empathy_markers |->
        (<<"n","o","t"," ","y","o","u","r"," ","f","a","u","l","t">> :> 25)
        @@ (<<"u","n","d","e","r","s","t","a","n","d","a","b","l","e">> :> 20)
        @@ (<<"d","o","n","'","t"," ","b","l","a","m","e"," ","y","o","u","r","s","e","l","f">> :> 25)
        @@ (<<"n","o","t"," ","t","o"," ","b","l","a","m","e">> :> 25)
        @@ (<<"t","h","e","s","e"," ","c","r","i","m","i","n","a","l","s">> :> 20)
        @@ (<<"y","o","u","'","r","e"," ","n","o","t"," ","a","l","o","n","e">> :> 20),
    action_words |->
        (<<"i","m","m","e","d","i","a","t","e","l","y">> :> 20)
        @@ (<<"r","e","p","o","r","t">> :> 20)
        @@ (<<"c","o","n","t","a","c","t">> :> 20)
        @@ (<<"n","e","v","e","r">> :> 20)
        @@ (<<"s","t","o","p">> :> 20)
        @@ (<<"h","a","n","g"," ","u","p">> :> 25) ]

\* all_weights: the tables merged by dict.update in the order of the loop, the later
\* table giving the weight of a term that two tables share
all_weights ==
    LET update(a, b) == b @@ a
    IN  update(update(update(update(domain_weights.critical_contacts,
                                    domain_weights.fraud_types),
                             domain_weights.regulatory_terms),
                      domain_weights.empathy_markers),
               domain_weights.action_words)

\* a weight for each place at which a term occurs
ImportanceByOccurrence(text) ==
    LET text_lower == Lower(text)
        RECURSIVE Sum(_)
        Sum(terms) ==
            IF terms = {} THEN 0
            ELSE LET term == CHOOSE t \in terms : TRUE
                 IN  all_weights[term]
                        * Cardinality({i \in 1..Len(text_lower) : OccursAt(term, text_lower, i)})
                     + Sum(terms \ {term})
    IN  Sum(DOMAIN all_weights)

\* importance_score: the loop over all_weights.items() with `if term in text_lower`
importance_score(text) ==
    LET text_lower == Lower(text)
        RECURSIVE Sum(_)
        Sum(terms) ==
            IF terms = {} THEN 0
            ELSE LET term == CHOOSE t \in terms : TRUE
                 IN  (IF In(term, text_lower) THEN all_weights[term] ELSE 0)
                     + Sum(terms \ {term})
    IN  Sum(DOMAIN all_weights)

\* np.log(n / d) for n >= d > 0 in hundredths: exact at the powers of two (ln 2 = 0.69),
\* linear between them
NpLog(n, d) ==
    LET RECURSIVE Doublings(_)
        Doublings(m) == IF 2 * m > n THEN 0 ELSE 1 + Doublings(2 * m)
        RECURSIVE Power(_)
        Power(k) == IF k = 0 THEN 1 ELSE 2 * Power(k - 1)
        k == Doublings(d)
        m == Power(k) * d
    IN  69 * k + (69 * (n - m)) \div m

\* weight_multiplier = 1 + np.log(1 + importance_score * 0.1)
weight_multiplier(importance) == 100 + NpLog(100 + importance, 100)

\* apply_domain_weights: base_embedding * weight_multiplier, the embedding kept as its
\* direction and its length
apply_domain_weights(text) ==
    [direction |-> Encode(text), scale |-> weight_multiplier(importance_score(text))]

\* a cosine that divides by the length of the second vector only
CosineHalfNormalised(a, b) ==
    (a.scale * b.scale * cosine_similarity(a.direction, b.direction)) \div (100 * b.scale)

\* sklearn cosine_similarity of two scaled embeddings: dot product over product of norms
WeightedCosine(a, b) ==
    (a.scale * b.scale * cosine_similarity(a.direction, b.direction)) \div (a.scale * b.scale)

(***************************************************************************)
(* DomainWeightedEvaluator: scoring of one question.                       *)
(***************************************************************************)
\* cosine similarity of the domain-weighted embeddings of two texts
WeightedSimilarity(response, reference) ==
    WeightedCosine(apply_domain_weights(response), apply_domain_weights(reference))

\* np.mean(list(scores.values())) over the three categories
EntityAverage(scores) ==
    SumSeq([k \in 1..Len(EntityCategories) |-> scores[EntityCategories[k]]]) \div Len(EntityCategories)

\* the weights the other way round
CompositeSwapped(similarity, entity_avg) == (4 * similarity + 6 * entity_avg) \div 10

\* 0.6 * similarity + 0.4 * entity_avg
Composite(similarity, entity_avg) == (6 * similarity + 4 * entity_avg) \div 10

\* an improvement that is never reported negative
DeltaClamped(finetuned, baseline) == IF finetuned > baseline THEN finetuned - baseline ELSE 0

\* the improvement fields: finetuned - baseline
Delta(finetuned, baseline) == finetuned - baseline

evaluate_response_pair(question, baseline_response, finetuned_response, reference_response) ==
    LET bm_similarity == WeightedSimilarity(baseline_response, reference_response)
        fm_similarity == WeightedSimilarity(finetuned_response, reference_response)
        ref_entities == extract_entities(reference_response)
        bm_entities == extract_entities(baseline_response)
        fm_entities == extract_entities(finetuned_response)
        bm_entity_avg == EntityAverage(calculate_entity_accuracy(bm_entities, ref_entities))
        fm_entity_avg == EntityAverage(calculate_entity_accuracy(fm_entities, ref_entities))
        bm_composite == Composite(bm_similarity, bm_entity_avg)
        fm_composite == Composite(fm_similarity, fm_entity_avg)
    IN  [baseline_semantic |-> bm_similarity,
         finetuned_semantic |-> fm_similarity,
         baseline_entity |-> bm_entity_avg,
         finetuned_entity |-> fm_entity_avg,
         baseline_composite |-> bm_composite,
         finetuned_composite |-> fm_composite,
         improvement |-> Delta(fm_composite, bm_composite),
         semantic_improvement |-> Delta(fm_similarity, bm_similarity),
         entity_improvement |-> Delta(fm_entity_avg, bm_entity_avg),
         baseline_entities |-> bm_entities,
         finetuned_entities |-> fm_entities,
         reference_entities |-> ref_entities]

\* the loop of find_best_reference_match: best_match = "", best_score = 0
RECURSIVE BestMatchFrom(_, _, _, _, _)
BestMatchFrom(question, ground_truth, i, best_match, best_score) ==
    IF i > Len(ground_truth) THEN best_match
    ELSE LET similarity == cosine_similarity(Encode(question), Encode(ground_truth[i].instruction))
         IN  IF similarity > best_score
             THEN BestMatchFrom(question, ground_truth, i + 1, ground_truth[i].output, similarity)
             ELSE BestMatchFrom(question, ground_truth, i + 1, best_match, best_score)

find_best_reference_match(question, ground_truth) ==
    BestMatchFrom(question, ground_truth, 1, << >>, 0)

DomainPairPool == {
    QAPair(Txt.report, Txt.call_af),
    QAPair(Txt.hello, EntityText.orgs),
    QAPair(Txt.feel, EntityText.samaritans),
    QAPair(Txt.happened, Txt.thanks) }

DomainCorpora == SeqsUpTo(DomainPairPool, MaxCorpus)

DomainQuestion(no, label, q, bm, fm) ==
    [question_no |-> no, category |-> label, question |-> q, BM |-> bm, FM |-> fm]

DomainQuestionOrder == <<
    DomainQuestion("Q1", Label.uk, Txt.report, Txt.hello, Txt.call_af),
    DomainQuestion("Q2", Label.uk, Txt.british, Txt.call_af, EntityText.nospace),
    DomainQuestion("Q3", Label.conv, Txt.feel, EntityText.samaritans, EntityText.samaritans),
    DomainQuestion("Q4", Label.other, Txt.no_idea, EntityText.fca, EntityText.orgs) >>

DomainQuestionLists ==
    {Picked(DomainQuestionOrder, picked) :
        picked \in {S \in SUBSET (1..Len(DomainQuestionOrder)) : Cardinality(S) <= MaxQuestions}}

(***************************************************************************)
(* CorePerformanceAnalyzer: the manual grading table.                      *)
(***************************************************************************)
dimensions == <<"UK_Contact_Accuracy", "Conversational_Quality_Empathy",
                "Practical_Utility_Quality", "Professional_Boundary_Adherence">>
DimensionSet == {dimensions[k] : k \in 1..Len(dimensions)}

GradedRow(uk, conv, prac, prof) ==
    [UK_Contact_Accuracy |-> uk, Conversational_Quality_Empathy |-> conv,
     Practical_Utility_Quality |-> prac, Professional_Boundary_Adherence |-> prof]

\* rows of [baseline, fine-tuned] scores; 0 marks a grade that is missing
RowPool == {
    GradedRow(<<5, 5>>,
        <<2, 2>>,
        <<3, 4>>,
        <<4, 4>>),
    GradedRow(<<4, 3>>,
        <<3, 5>>,
        <<3, 4>>,
        <<5, 5>>),
    GradedRow(<<0, 0>>,
        <<3, 5>>,
        <<0, 0>>,
        <<0, 4>>),
    GradedRow(<<2, 5>>,
        <<0, 0>>,
        <<3, 0>>,
        <<3, 5>>),
    GradedRow(<<0, 0>>,
        <<0, 0>>,
        <<0, 0>>,
        <<0, 0>>) }

GradingTables == SeqsUpTo(RowPool, MaxGraded)

IsNaN(x) == x = NaN

\* no pair of scores is treated as missing
MissingNever(baseline_score, finetuned_score) == FALSE

\* if baseline_score == 0 and finetuned_score == 0
Missing(baseline_score, finetuned_score) == baseline_score = 0 /\ finetuned_score = 0

\* the four columns process_data makes of one dimension of one question
ProcessScores(pair) ==
    LET baseline_score == IF Missing(pair[1], pair[2]) THEN NaN ELSE pair[1]
        finetuned_score == IF Missing(pair[1], pair[2]) THEN NaN ELSE pair[2]
    IN  [Baseline |-> baseline_score,
         Finetuned |-> finetuned_score,
         Improvement |-> IF ~IsNaN(baseline_score)
                         THEN Delta(finetuned_score, baseline_score) ELSE NaN,
         Improvement_Pct |-> IF ~IsNaN(baseline_score) /\ baseline_score > 0
                             THEN ((finetuned_score - baseline_score) * 100 * One) \div baseline_score
                             ELSE NaN]

\* process_data: one row per question, in the order of grading_data
process_data(data) ==
    [i \in 1..Len(data) |-> [dim \in DimensionSet |-> ProcessScores(data[i][dim])]]

\* a column of the DataFrame
Column(df, dim, field) == [i \in 1..Len(df) |-> df[i][dim][field]]

\* Series.dropna()
DropNa(column) == SelectSeq(column, LAMBDA x : ~IsNaN(x))

\* Series.mean(): NaN skipped, NaN when nothing is left
SeriesMean(column) ==
    LET xs == DropNa(column)
    IN  IF xs = << >> THEN NaN ELSE (SumSeq(xs) * One) \div Len(xs)

\* Series.std(): the sample standard deviation (ddof = 1) of the values that are not
\* NaN, NaN for fewer than two; represented by its square
SeriesStd(column) ==
    LET xs == DropNa(column)
        n == Len(xs)
        sq == [i \in 1..n |-> xs[i] * xs[i]]
    IN  IF n < 2 THEN NaN
        ELSE ((n * SumSeq(sq) - SumSeq(xs) * SumSeq(xs)) * One) \div (n * (n - 1))

\* the entry of one dimension with `improvements >= 0` counted as improved
DimensionMetricsZeroImproved(df, dim) ==
    LET improvements == DropNa(Column(df, dim, "Improvement"))
        positive_improvements == Len(SelectSeq(improvements, LAMBDA x : x >= 0))
        total_valid == Len(improvements)
    IN  [baseline_mean |-> SeriesMean(Column(df, dim, "Baseline")),
         baseline_std |-> SeriesStd(Column(df, dim, "Baseline")),
         finetuned_mean |-> SeriesMean(Column(df, dim, "Finetuned")),
         finetuned_std |-> SeriesStd(Column(df, dim, "Finetuned")),
         mean_improvement |-> SeriesMean(Column(df, dim, "Improvement")),
         improvement_std |-> SeriesStd(Column(df, dim, "Improvement")),
         improvement_consistency_pct |-> IF total_valid > 0
                                         THEN (positive_improvements * 100 * One) \div total_valid
                                         ELSE 0,
         questions_improved |-> positive_improvements,
         questions_declined |-> Len(SelectSeq(improvements, LAMBDA x : x < 0)),
         questions_unchanged |-> Len(SelectSeq(improvements, LAMBDA x : x = 0)),
         total_questions |-> total_valid]

\* the entry calculate_core_metrics makes for one dimension
DimensionMetrics(df, dim) ==
    LET improvements == DropNa(Column(df, dim, "Improvement"))
        positive_improvements == Len(SelectSeq(improvements, LAMBDA x : x > 0))
        total_valid == Len(improvements)
    IN  [baseline_mean |-> SeriesMean(Column(df, dim, "Baseline")),
         baseline_std |-> SeriesStd(Column(df, dim, "Baseline")),
         finetuned_mean |-> SeriesMean(Column(df, dim, "Finetuned")),
         finetuned_std |-> SeriesStd(Column(df, dim, "Finetuned")),
         mean_improvement |-> SeriesMean(Column(df, dim, "Improvement")),
         improvement_std |-> SeriesStd(Column(df, dim, "Improvement")),
         improvement_consistency_pct |-> IF total_valid > 0
                                         THEN (positive_improvements * 100 * One) \div total_valid
                                         ELSE 0,
         questions_improved |-> positive_improvements,
         questions_declined |-> Len(SelectSeq(improvements, LAMBDA x : x < 0)),
         questions_unchanged |-> Len(SelectSeq(improvements, LAMBDA x : x = 0)),
         total_questions |-> total_valid]

calculate_core_metrics(df) == [dim \in DimensionSet |-> DimensionMetrics(df, dim)]

(***************************************************************************)
(* _calculate_summary_statistics of the two evaluators.                    *)
(* A quotient whose size matters only through comparisons (Cohen's d, the  *)
(* t statistic) is kept exactly: its sign and its square num / den, or     *)
(* "nan" for 0/0 and "inf" for x/0, as numpy floats divide.  p_value and   *)
(* `significant` need the t distribution and are left out.                 *)
(***************************************************************************)
\* numpy float division x / y, on the sign of x (y is a root, never negative) and on
\* the squares num = x * x and den = y * y
Quotient(x, num, den) ==
    LET sign == IF x > 0 THEN 1 ELSE IF x < 0 THEN 0 - 1 ELSE 0
    IN  IF den = 0
        THEN IF num = 0 THEN [class |-> "nan", sign |-> 0, num |-> 0, den |-> 0]
             ELSE [class |-> "inf", sign |-> sign, num |-> num, den |-> 0]
        ELSE [class |-> "finite", sign |-> sign, num |-> num, den |-> den]

\* np.mean of a list: nan for the empty list
MeanOrNaN(xs) == IF xs = << >> THEN NaN ELSE NpMean(xs)

\* len(xs)**2 * np.std(xs)**2 (population variance, ddof = 0)
SquaredDeviation(xs) ==
    Len(xs) * SumSeq([i \in 1..Len(xs) |-> xs[i] * xs[i]]) - SumSeq(xs) * SumSeq(xs)

\* (np.mean(ft) - np.mean(bm)) / np.sqrt((np.std(bm)**2 + np.std(ft)**2) / 2)
cohens_d(finetuned, baseline) ==
    LET diff == SumSeq(finetuned) - SumSeq(baseline)
    IN  Quotient(diff, 2 * diff * diff,
                 SquaredDeviation(baseline) + SquaredDeviation(finetuned))

\* the statistic of stats.ttest_rel(finetuned, baseline):
\* mean(d) / (std(d, ddof = 1) / sqrt(n)) of the differences d
t_statistic(finetuned, baseline) ==
    LET n == Len(finetuned)
        d == [i \in 1..n |-> finetuned[i] - baseline[i]]
    IN  IF n = 0 THEN Quotient(0, 0, 0)
        ELSE Quotient(SumSeq(d), SumSeq(d) * SumSeq(d) * (n - 1), SquaredDeviation(d))

\* the share of the improvements that are >= 0
ConsistencyNonNegative(improvements) ==
    IF improvements = << >> THEN NaN
    ELSE (Len(SelectSeq(improvements, LAMBDA x : x >= 0)) * One) \div Len(improvements)

\* np.sum(np.array(improvements) > 0) / len(improvements): nan for the empty list
improvement_consistency(improvements) ==
    IF improvements = << >> THEN NaN
    ELSE (Len(SelectSeq(improvements, LAMBDA x : x > 0)) * One) \div Len(improvements)

\* abs(d) > p / q (strict) or abs(d) >= p / q on floats, False for nan: the test
\* d.num * q * q > p * p * d.den, made on quotients and remainders to stay in range
AbsExceeds(d, p, q, strict) ==
    LET m == q * q
        k == p * p
        a == d.num \div k
        b == d.den \div m
        r == m * (d.num % k)
        t == k * (d.den % m)
    IN  \/ d.class = "inf"
        \/ /\ d.class = "finite"
           /\ a > b \/ (a = b /\ (r > t \/ (~strict /\ r = t)))

\* np.std(xs)**2 in fixed point: nan for the empty list
NpStdSquared(xs) ==
    IF xs = << >> THEN NaN ELSE SquaredDeviation(xs) \div (Len(xs) * Len(xs) * One)

\* [r[field] for r in results]
Field(rs, field) == [i \in 1..Len(rs) |-> rs[i][field]]

\* one of the two blocks of the standard evaluator's summary
ScoreStatistics(baseline, finetuned, improvements) ==
    [baseline_mean |-> MeanOrNaN(baseline),
     baseline_std |-> NpStdSquared(baseline),
     finetuned_mean |-> MeanOrNaN(finetuned),
     finetuned_std |-> NpStdSquared(finetuned),
     mean_improvement |-> MeanOrNaN(improvements),
     improvement_std |-> NpStdSquared(improvements),
     improvement_consistency |-> improvement_consistency(improvements),
     t_statistic |-> t_statistic(finetuned, baseline),
     cohens_d |-> cohens_d(finetuned, baseline)]

\* StandardCosineEvaluator._calculate_summary_statistics
std_calculate_summary_statistics(rs) ==
    [sample_size |-> Len(rs),
     best_match_scores |->
         ScoreStatistics(Field(rs, "baseline_best_match"), Field(rs, "finetuned_best_match"),
                         Field(rs, "best_match_improvement")),
     average_alignment_scores |->
         ScoreStatistics(Field(rs, "baseline_avg_alignment"),
                         Field(rs, "finetuned_avg_alignment"),
                         Field(rs, "avg_alignment_improvement"))]

\* the interpretation _plot_effect_size_visualization writes next to an effect size
EffectInterpretation(es) ==
    IF AbsExceeds(es, 4, 5, FALSE) THEN "Large Effect"
    ELSE IF AbsExceeds(es, 1, 2, FALSE) THEN "Medium Effect"
    ELSE IF AbsExceeds(es, 1, 5, FALSE) THEN "Small Effect"
    ELSE "Negligible Effect"

\* the label with a fourth band below 0.2
EffectSizeWithNegligible(d) ==
    IF AbsExceeds(d, 4, 5, TRUE) THEN "large"
    ELSE IF AbsExceeds(d, 1, 2, TRUE) THEN "medium"
    ELSE IF AbsExceeds(d, 1, 5, TRUE) THEN "small"
    ELSE "negligible"

\* 'large' if abs(cohens_d) > 0.8 else 'medium' if abs(cohens_d) > 0.5 else 'small'
effect_size(d) ==
    IF AbsExceeds(d, 4, 5, TRUE) THEN "large"
    ELSE IF AbsExceeds(d, 1, 2, TRUE) THEN "medium"
    ELSE "small"

\* the empty dict
EmptyDict == [k \in {} |-> 0]

\* DomainWeightedEvaluator._calculate_summary_statistics
dom_calculate_summary_statistics(rs) ==
    IF rs = << >> THEN EmptyDict
    ELSE LET bm_composite == Field(rs, "baseline_composite")
             fm_composite == Field(rs, "finetuned_composite")
             improvements == Field(rs, "improvement")
             d == cohens_d(fm_composite, bm_composite)
         IN  [detailed_results |-> rs,
              summary_statistics |->
                  [total_evaluations |-> Len(rs),
                   baseline_semantic_mean |-> MeanOrNaN(Field(rs, "baseline_semantic")),
                   finetuned_semantic_mean |-> MeanOrNaN(Field(rs, "finetuned_semantic")),
                   baseline_entity_mean |-> MeanOrNaN(Field(rs, "baseline_entity")),
                   finetuned_entity_mean |-> MeanOrNaN(Field(rs, "finetuned_entity")),
                   baseline_composite_mean |-> MeanOrNaN(bm_composite),
                   finetuned_composite_mean |-> MeanOrNaN(fm_composite),
                   mean_improvement |-> MeanOrNaN(improvements),
                   improvement_std |-> NpStdSquared(improvements),
                   improvement_consistency |-> improvement_consistency(improvements),
                   statistical_significance |->
                       [t_statistic |-> t_statistic(fm_composite, bm_composite),
                        cohens_d |-> d,
                        effect_size |-> effect_size(d)]]]

(***************************************************************************)
(* The runs.                                                               *)
(***************************************************************************)

Missing_file == [found |-> FALSE, data |-> << >>]
DatasetFile(data) == [found |-> TRUE, data |-> data]

\* the complete_evaluation_data module: absent, or a list of records
Supplements ==
    {Missing_file} \cup {DatasetFile(Picked(SupplementOrder, picked)) :
                             picked \in {{1}, {2}, {1, 2}, {2, 3}}}
None == << >>
Idle == "idle"

\* the state of the parts a script does not have
NoPipeline ==
    /\ ground_truth_data = << >>
    /\ fraud_categories = None
    /\ evaluation_data = << >>
    /\ qi = 0
    /\ results = << >>
    /\ log = << >>
    /\ embedding_seed = 1
    /\ dataset = << >>
    /\ question_file = Missing_file
    /\ summary = None
NoEntityCall == entity_call = [op |-> "none", returned |-> FALSE]
NoGrading == grading_data = << >> /\ results_df = None /\ metrics = None

PipelineVars == <<ground_truth_data, fraud_categories, evaluation_data, qi, results,
                  log, embedding_seed, dataset, question_file, summary>>
GradingVars == <<grading_data, results_df, metrics>>

(***************************************************************************)
(* standard_cosine_evaluation.py                                           *)
(***************************************************************************)
\* the four candidate paths of _load_ground_truth: the first is missing, the second holds
\* the corpus, and the third holds another one that must not be read
potential_paths(corpus) ==
    <<Missing_file, DatasetFile(corpus),
      DatasetFile(<<QAPair(Txt.report, Txt.no_idea)>>), Missing_file>>
NoDataset == <<Missing_file, Missing_file, Missing_file, Missing_file>>

InitStandard ==
    /\ evaluator = "standard"
    /\ pc = "init"
    /\ dataset \in {potential_paths(c) : c \in Corpora} \cup {NoDataset}
    /\ evaluation_data \in QuestionLists
    /\ question_file \in {f \in Supplements :
                             Len(evaluation_data) + Len(f.data) <= MaxQuestions}
    /\ embedding_seed \in Seeds
    /\ ground_truth_data = << >>
    /\ fraud_categories = None
    /\ qi = 0
    /\ results = << >>
    /\ log = << >>
    /\ summary = None
    /\ NoEntityCall
    /\ NoGrading

\* the index of the first file that exists, 0 when none does
FirstFound(files) ==
    LET RECURSIVE Try(_)
        Try(i) == IF i > Len(files) THEN 0
                  ELSE IF files[i].found THEN i
                  ELSE Try(i + 1)
    IN  Try(1)

\* _load_ground_truth and load_ground_truth: the content of the first path that opens, or
\* [] when every open raises FileNotFoundError
load_ground_truth ==
    IF FirstFound(dataset) = 0 THEN << >> ELSE dataset[FirstFound(dataset)].data

\* a logged message
LogEntry(level, event, detail) == [level |-> level, event |-> event, detail |-> detail]

\* what the load step logs: an error when no dataset file is found; the standard
\* evaluator also names the path it loaded
LoadLog ==
    IF FirstFound(dataset) = 0 THEN <<LogEntry("error", "no ground truth", << >>)>>
    ELSE IF evaluator = "standard"
         THEN <<LogEntry("info", "loaded ground truth", <<FirstFound(dataset)>>)>>
    ELSE << >>

\* StandardCosineEvaluator.__init__
StdConstruct ==
    /\ evaluator = "standard"
    /\ pc = "init"
    /\ ground_truth_data' = load_ground_truth
    /\ fraud_categories' = organize_by_categories(load_ground_truth)
    /\ log' = log \o LoadLog
    /\ pc' = "constructed"
    /\ UNCHANGED <<evaluator, evaluation_data, qi, results, embedding_seed,
                   dataset, question_file, summary, entity_call, GradingVars>>

\* [q for q in complete_evaluation_data
\*    if q['question_id'] not in [item['question_id'] for item in evaluation_data]]
remaining_questions(complete_evaluation_data, base) ==
    SelectSeq(complete_evaluation_data,
              LAMBDA q : \A i \in 1..Len(base) : base[i].question_id # q.question_id)

\* the start of run_comprehensive_evaluation: the built-in questions are extended by the
\* module's, or kept as they are when the module cannot be imported
StdMerge ==
    /\ evaluator = "standard"
    /\ pc = "constructed"
    /\ IF question_file.found
       THEN /\ evaluation_data' =
                   evaluation_data \o remaining_questions(question_file.data, evaluation_data)
            /\ log' = Append(log, LogEntry("info", "complete dataset",
                                           <<Len(evaluation_data')>>))
       ELSE /\ log' = Append(log, LogEntry("warning", "partial data", << >>))
            /\ UNCHANGED evaluation_data
    /\ pc' = "scoring"
    /\ UNCHANGED <<evaluator, ground_truth_data, fraud_categories, qi, results,
                   embedding_seed, dataset, question_file, summary, entity_call, GradingVars>>

\* the cut and the dots applied to every reference
TruncateAlways(best_reference) ==
    SubSeq(best_reference, 1, IF Len(best_reference) > TruncLen
                              THEN TruncLen ELSE Len(best_reference)) \o Ellipsis

\* best_reference[:200] + "..." if len(best_reference) > 200 else best_reference
Truncate(best_reference) ==
    IF Len(best_reference) > TruncLen
    THEN SubSeq(best_reference, 1, TruncLen) \o Ellipsis
    ELSE best_reference

\* the EvaluationResult of one question
EvaluationResult(item) ==
    LET gt_category == determine_category_mapping(item.category)
        baseline_scores == evaluate_response_alignment(item.BM, gt_category)
        finetuned_scores == evaluate_response_alignment(item.FM, gt_category)
        relevant_sources == RelevantSources(gt_category)
        best_ref_idx == DictGet(finetuned_scores, "best_reference_idx", 0)
        best_reference == IF relevant_sources # << >>
                          THEN relevant_sources[best_ref_idx + 1] ELSE << >>
    IN  [question_id |-> item.question_id,
         category |-> item.category,
         baseline_response |-> item.BM,
         finetuned_response |-> item.FM,
         baseline_best_match |-> baseline_scores.best_match_score,
         baseline_avg_alignment |-> baseline_scores.average_alignment,
         finetuned_best_match |-> finetuned_scores.best_match_score,
         finetuned_avg_alignment |-> finetuned_scores.average_alignment,
         best_match_improvement |->
             Delta(finetuned_scores.best_match_score, baseline_scores.best_match_score),
         avg_alignment_improvement |->
             Delta(finetuned_scores.average_alignment, baseline_scores.average_alignment),
         best_reference_match |-> Truncate(best_reference)]

\* one pass of the loop of run_comprehensive_evaluation
StdEvaluateQuestion ==
    /\ evaluator = "standard"
    /\ pc = "scoring"
    /\ qi < Len(evaluation_data)
    /\ LET item == evaluation_data[qi + 1]
           gt_category == determine_category_mapping(item.category)
           warning == LogEntry("warning", "no sources", gt_category)
       IN  /\ results' = Append(results, EvaluationResult(item))
           /\ log' = log \o <<LogEntry("info", "evaluating", <<item.question_id, gt_category>>)>>
                        \o (IF AlignmentWarns(gt_category) THEN <<warning, warning>> ELSE << >>)
    /\ qi' = qi + 1
    /\ UNCHANGED <<evaluator, pc, ground_truth_data, fraud_categories, evaluation_data,
                   embedding_seed, dataset, question_file, summary, entity_call, GradingVars>>

\* the statistics taken while questions are still to be scored
StdSummarizeEarly ==
    /\ evaluator = "standard"
    /\ pc = "scoring"
    /\ qi <= Len(evaluation_data)
    /\ summary' = [summary_statistics |-> std_calculate_summary_statistics(results)]
    /\ pc' = "summarized"
    /\ UNCHANGED <<evaluator, ground_truth_data, fraud_categories, evaluation_data, qi,
                   results, log, embedding_seed, dataset, question_file, entity_call, GradingVars>>

\* summary_stats = self._calculate_summary_statistics(results), after the loop; summary
\* holds the local summary_stats until the dict is returned
StdSummarize ==
    /\ evaluator = "standard"
    /\ pc = "scoring"
    /\ qi = Len(evaluation_data)
    /\ summary' = [summary_statistics |-> std_calculate_summary_statistics(results)]
    /\ pc' = "summarized"
    /\ UNCHANGED <<evaluator, ground_truth_data, fraud_categories, evaluation_data, qi,
                   results, log, embedding_seed, dataset, question_file, entity_call, GradingVars>>

\* _generate_comprehensive_visualizations(results, summary_stats) and the returned dict;
\* min(improvements) of _plot_improvement_distribution raises on an empty result list
StdVisualize ==
    /\ evaluator = "standard"
    /\ pc = "summarized"
    /\ IF results = << >>
       THEN /\ log' = Append(log, LogEntry("info", "generating visualizations", << >>))
            /\ pc' = "raised"
            /\ UNCHANGED summary
       ELSE /\ log' = log \o <<LogEntry("info", "generating visualizations", << >>),
                               LogEntry("info", "visualizations saved", << >>)>>
            /\ summary' = [evaluation_results |-> results,
                           summary_statistics |-> summary.summary_statistics,
                           ground_truth_size |-> Len(ground_truth_data)]
            /\ pc' = "done"
    /\ UNCHANGED <<evaluator, ground_truth_data, fraud_categories, evaluation_data, qi,
                   results, embedding_seed, dataset, question_file, entity_call, GradingVars>>

NextStandard ==
    StdConstruct \/ StdMerge \/ StdEvaluateQuestion \/ StdSummarize \/ StdVisualize

SpecStandard == InitStandard /\ [][NextStandard]_vars

(***************************************************************************)
(* domain_weighted_evaluation.py: the entity functions on their own.       *)
(***************************************************************************)
ExtractInputs ==
    {[op |-> "extract_entities", returned |-> FALSE, text |-> text, recased |-> Recase(mode, text)] :
        text \in EntityTexts, mode \in CaseModes}

AccuracyInputs ==
    {[op |-> "calculate_entity_accuracy", returned |-> FALSE,
      response |-> response, reference |-> reference] :
        response \in EntityTexts, reference \in EntityTexts}

WeightInputs ==
    {[op |-> "apply_domain_weights", returned |-> FALSE, text |-> text] :
        text \in EntityTexts \cup {EntityText.weights, Txt.report, Txt.not_alone}}

InitEntity ==
    /\ evaluator = "entity"
    /\ pc = Idle
    /\ NoPipeline
    /\ entity_call \in ExtractInputs \cup AccuracyInputs \cup WeightInputs
    /\ NoGrading

\* extract_entities on a text and on a re-casing of it
CallExtractEntities ==
    /\ evaluator = "entity"
    /\ entity_call.op = "extract_entities"
    /\ ~entity_call.returned
    /\ entity_call' = [op |-> "extract_entities",
                       returned |-> TRUE,
                       text |-> entity_call.text,
                       recased |-> entity_call.recased,
                       entities |-> extract_entities(entity_call.text),
                       recased_entities |-> extract_entities(entity_call.recased)]
    /\ UNCHANGED <<evaluator, pc, PipelineVars, GradingVars>>

\* calculate_entity_accuracy on the entities of a response and of a reference
CallEntityAccuracy ==
    /\ evaluator = "entity"
    /\ entity_call.op = "calculate_entity_accuracy"
    /\ ~entity_call.returned
    /\ LET response_entities == extract_entities(entity_call.response)
           reference_entities == extract_entities(entity_call.reference)
       IN  entity_call' = [op |-> "calculate_entity_accuracy",
                           returned |-> TRUE,
                           response |-> entity_call.response,
                           reference |-> entity_call.reference,
                           response_entities |-> response_entities,
                           reference_entities |-> reference_entities,
                           scores |-> calculate_entity_accuracy(response_entities,
                                                                reference_entities)]
    /\ UNCHANGED <<evaluator, pc, PipelineVars, GradingVars>>

\* apply_domain_weights on a text
CallApplyDomainWeights ==
    /\ evaluator = "entity"
    /\ entity_call.op = "apply_domain_weights"
    /\ ~entity_call.returned
    /\ entity_call' = [op |-> "apply_domain_weights",
                       returned |-> TRUE,
                       text |-> entity_call.text,
                       importance_score |-> importance_score(entity_call.text),
                       weighted_embedding |-> apply_domain_weights(entity_call.text)]
    /\ UNCHANGED <<evaluator, pc, PipelineVars, GradingVars>>

NextEntity == CallExtractEntities \/ CallEntityAccuracy \/ CallApplyDomainWeights

SpecEntity == InitEntity /\ [][NextEntity]_vars

(***************************************************************************)
(* domain_weighted_evaluation.py: run_evaluation.                          *)
(***************************************************************************)
InitDomain ==
    /\ evaluator = "domain"
    /\ pc = "init"
    /\ dataset \in {<<DatasetFile(c)>> : c \in DomainCorpora} \cup {<<Missing_file>>}
    /\ question_file \in {DatasetFile(q) : q \in DomainQuestionLists} \cup {Missing_file}
    /\ evaluation_data = << >>
    /\ embedding_seed \in Seeds
    /\ ground_truth_data = << >>
    /\ fraud_categories = None
    /\ qi = 0
    /\ results = << >>
    /\ log = << >>
    /\ summary = None
    /\ NoEntityCall
    /\ NoGrading

\* run_evaluation up to the loop: Models_Responses.json is opened outside any try, so
\* its FileNotFoundError leaves run_evaluation and main; then the ground truth is loaded
DomLoad ==
    /\ evaluator = "domain"
    /\ pc = "init"
    /\ IF question_file.found
       THEN /\ evaluation_data' = question_file.data
            /\ ground_truth_data' = load_ground_truth
            /\ log' = log \o LoadLog
            /\ pc' = "scoring"
       ELSE /\ pc' = "raised"
            /\ UNCHANGED <<evaluation_data, ground_truth_data, log>>
    /\ UNCHANGED <<evaluator, fraud_categories, qi, results,
                   embedding_seed, dataset, question_file, summary, entity_call, GradingVars>>

\* the metadata run_evaluation adds to a result
WithMetadata(eval_result, item, reference_response) ==
    [k \in DOMAIN eval_result \cup {"question_id", "category", "question",
                                     "baseline_response", "finetuned_response",
                                     "reference_response"} |->
        IF k = "question_id" THEN item.question_no
        ELSE IF k = "category" THEN item.category
        ELSE IF k = "question" THEN item.question
        ELSE IF k = "baseline_response" THEN item.BM
        ELSE IF k = "finetuned_response" THEN item.FM
        ELSE IF k = "reference_response" THEN reference_response
        ELSE eval_result[k]]

\* one pass of the loop of run_evaluation
DomEvaluateItem ==
    /\ evaluator = "domain"
    /\ pc = "scoring"
    /\ qi < Len(evaluation_data)
    /\ LET item == evaluation_data[qi + 1]
           reference_response == find_best_reference_match(item.question, ground_truth_data)
       IN  IF reference_response = << >>
           THEN /\ log' = Append(log, LogEntry("warning", "no reference", item.question_no))
                /\ UNCHANGED results
           ELSE /\ results' = Append(results,
                       WithMetadata(evaluate_response_pair(item.question, item.BM, item.FM,
                                                           reference_response),
                                    item, reference_response))
                /\ log' = Append(log, LogEntry("info", "evaluated", item.question_no))
    /\ qi' = qi + 1
    /\ UNCHANGED <<evaluator, pc, ground_truth_data, fraud_categories, evaluation_data,
                   embedding_seed, dataset, question_file, summary, entity_call, GradingVars>>

\* the end of run_evaluation: return self._calculate_summary_statistics(results)
DomSummarize ==
    /\ evaluator = "domain"
    /\ pc = "scoring"
    /\ qi = Len(evaluation_data)
    /\ summary' = dom_calculate_summary_statistics(results)
    /\ pc' = "returned"
    /\ UNCHANGED <<evaluator, ground_truth_data, fraud_categories, evaluation_data, qi,
                   results, log, embedding_seed, dataset, question_file, entity_call, GradingVars>>

\* main after run_evaluation: nothing is saved or printed when the result is empty
DomMain ==
    /\ evaluator = "domain"
    /\ pc = "returned"
    /\ IF summary = EmptyDict
       THEN /\ log' = Append(log, LogEntry("error", "evaluation failed", << >>))
            /\ pc' = "failed"
       ELSE /\ log' = Append(log, LogEntry("info", "results saved", << >>))
            /\ pc' = "saved"
    /\ UNCHANGED <<evaluator, ground_truth_data, fraud_categories, evaluation_data, qi,
                   results, embedding_seed, dataset, question_file, summary, entity_call, GradingVars>>

\* evaluation_visualizer.py run after the evaluator: _load_results reads the file main
\* saved, and generate_detailed_report returns at once when there is none
VisGenerateReport ==
    /\ evaluator = "domain"
    /\ pc \in {"saved", "failed", "raised"}
    /\ IF pc = "saved"
       THEN /\ log' = Append(log, LogEntry("info", "report saved", << >>))
            /\ pc' = "reported"
       ELSE /\ log' = Append(log, LogEntry("error", "results file not found", << >>))
            /\ pc' = "no report"
    /\ UNCHANGED <<evaluator, ground_truth_data, fraud_categories, evaluation_data, qi,
                   results, embedding_seed, dataset, question_file, summary, entity_call,
                   GradingVars>>

\* {'small': 0.2, 'medium': 0.5, 'large': 0.8} of create_performance_comparison, in tenths
EffectSizeValue == [small |-> 2, medium |-> 5, large |-> 8]

\* evaluation_visualizer.py run after the evaluator, create_performance_comparison: it
\* returns at once when there is no results file, and a label that is not a key of
\* the table raises KeyError
VisCreatePerformanceComparison ==
    /\ evaluator = "domain"
    /\ pc \in {"saved", "failed", "raised"}
    /\ IF pc = "saved"
       THEN LET stats == summary.summary_statistics.statistical_significance
            IN  /\ pc' = IF stats.effect_size \in DOMAIN EffectSizeValue
                         THEN "compared" ELSE "key error"
                /\ UNCHANGED log
       ELSE /\ log' = Append(log, LogEntry("error", "results file not found", << >>))
            /\ pc' = "no comparison"
    /\ UNCHANGED <<evaluator, ground_truth_data, fraud_categories, evaluation_data, qi,
                   results, embedding_seed, dataset, question_file, summary, entity_call,
                   GradingVars>>

NextDomain ==
    \/ DomLoad \/ DomEvaluateItem \/ DomSummarize \/ DomMain
    \/ VisGenerateReport \/ VisCreatePerformanceComparison

SpecDomain == InitDomain /\ [][NextDomain]_vars

(***************************************************************************)
(* core_performance_analysis.py                                            *)
(***************************************************************************)
InitManual ==
    /\ evaluator = "manual"
    /\ pc = "init"
    /\ grading_data \in GradingTables
    /\ results_df = None
    /\ metrics = None
    /\ NoPipeline
    /\ NoEntityCall

\* self.results_df is None until process_data has run
ResultsDfIsNone == pc = "init"

\* CorePerformanceAnalyzer.process_data
ManProcessData ==
    /\ evaluator = "manual"
    /\ results_df' = process_data(grading_data)
    /\ pc' = IF pc = "metrics" THEN "metrics" ELSE "processed"
    /\ UNCHANGED <<evaluator, PipelineVars, entity_call, grading_data, metrics>>

\* CorePerformanceAnalyzer.calculate_core_metrics, which processes the data first
\* when results_df is None
ManCalculateCoreMetrics ==
    /\ evaluator = "manual"
    /\ LET df == IF ResultsDfIsNone THEN process_data(grading_data) ELSE results_df
       IN  /\ results_df' = df
           /\ metrics' = calculate_core_metrics(df)
    /\ pc' = "metrics"
    /\ UNCHANGED <<evaluator, PipelineVars, entity_call, grading_data>>

NextManual == ManProcessData \/ ManCalculateCoreMetrics

SpecManual == InitManual /\ [][NextManual]_vars

(***************************************************************************)
(* Any of the scripts.                                                     *)
(***************************************************************************)
Init == InitStandard \/ InitEntity \/ InitDomain \/ InitManual

Next == NextStandard \/ NextEntity \/ NextDomain \/ NextManual

Spec == Init /\ [][Next]_vars

(***************************************************************************)
(* Properties.                                                             *)
(***************************************************************************)
\* term is a contiguous piece of text
HasSubstring(term, text) ==
    \/ term = << >>
    \/ \E i \in 1..(Len(text) - Len(term) + 1) :
          text[i] = term[1] /\ SubSeq(text, i, i + Len(term) - 1) = term

\* a - b on floats: NaN when either operand is NaN
FloatSub(a, b) == IF IsNaN(a) \/ IsNaN(b) THEN NaN ELSE a - b

StandardImprovementsOk ==
    \A i \in 1..Len(results) :
        /\ results[i].best_match_improvement =
              results[i].finetuned_best_match - results[i].baseline_best_match
        /\ results[i].avg_alignment_improvement =
              results[i].finetuned_avg_alignment - results[i].baseline_avg_alignment

DomainImprovementsOk ==
    \A i \in 1..Len(results) :
        /\ results[i].improvement =
              results[i].finetuned_composite - results[i].baseline_composite
        /\ results[i].semantic_improvement =
              results[i].finetuned_semantic - results[i].baseline_semantic
        /\ results[i].entity_improvement =
              results[i].finetuned_entity - results[i].baseline_entity

ManualImprovementsOk ==
    pc # "init" =>
        \A i \in 1..Len(results_df) : \A dim \in DimensionSet :
            results_df[i][dim].Improvement =
                FloatSub(results_df[i][dim].Finetuned, results_df[i][dim].Baseline)

\* C1: in every per-question result of the three evaluators and for every metric axis,
\* the stored improvement is the stored fine-tuned score minus the stored baseline score,
\* negative when the fine-tuned score is the lower one (never clamped).
C1_ImprovementIsDifference ==
    /\ evaluator = "standard" => StandardImprovementsOk
    /\ evaluator = "domain" => DomainImprovementsOk
    /\ evaluator = "manual" => ManualImprovementsOk

C1_Witness ==
    /\ evaluator = "domain"
    /\ \E i \in 1..Len(results) :
          /\ results[i].improvement < 0
          /\ results[i].entity_improvement < 0
          /\ results[i].finetuned_composite < results[i].baseline_composite

\* C2: a question whose category bucket is empty is scored against the "general" bucket
\* when that bucket is not empty; the all-zero scores are returned only when "general"
\* is empty too.
C2_EmptyBucketFallsBackToGeneral ==
    (evaluator = "standard" /\ pc = "scoring") =>
        \A i \in 1..Len(results) :
            LET key == determine_category_mapping(results[i].category)
                general == fraud_categories["general"]
                sims == Similarities(results[i].baseline_response, general)
            IN  (fraud_categories[key] = << >> /\ general # << >>) =>
                    /\ results[i].baseline_best_match = NpMax(sims)
                    /\ results[i].baseline_avg_alignment = NpMean(sims)

Outputs(data) == [i \in 1..Len(data) |-> data[i].output]

\* C4: after _organize_by_categories the "general" bucket holds the output of every
\* QAPair once per pair, in corpus order, duplicates kept; an empty corpus gives five
\* empty buckets.
C4_GeneralHoldsEveryOutput ==
    (evaluator = "standard" /\ pc # "init") =>
        /\ DOMAIN fraud_categories = CategoryKeys
        /\ fraud_categories["general"] = Outputs(ground_truth_data)
        /\ Len(fraud_categories["general"]) = Len(ground_truth_data)
        /\ ground_truth_data = << >> => \A key \in CategoryKeys : fraud_categories[key] = << >>

C4_Witness ==
    /\ evaluator = "standard"
    /\ pc # "init"
    /\ Len(ground_truth_data) = 2
    /\ ground_truth_data[1] # ground_truth_data[2]
    /\ fraud_categories["general"] = <<Txt.thanks, Txt.thanks>>

\* the pair has one of the trigger substrings in its lower-cased instruction or output
Triggered(triggers, item) ==
    LET instruction_lower == << >> \o Lower(item.instruction)
        output_lower == << >> \o Lower(item.output)
    IN  \E k \in 1..Len(triggers) :
            \/ HasSubstring(triggers[k], instruction_lower)
            \/ HasSubstring(triggers[k], output_lower)

ExpectedBucket(triggers) ==
    Outputs(SelectSeq(ground_truth_data, LAMBDA item : Triggered(triggers, item)))

\* C5: for each of the four categories, a pair's output is in the category's bucket
\* exactly when one of the category's trigger substrings occurs in the lower-cased
\* instruction or output, whatever the other categories the pair is in.
C5_BucketIffTrigger ==
    (evaluator = "standard" /\ pc # "init") =>
        /\ fraud_categories["uk_knowledge"] = ExpectedBucket(UkTriggers)
        /\ fraud_categories["fraud_typology"] = ExpectedBucket(TypologyTriggers)
        /\ fraud_categories["conversational_quality"] = ExpectedBucket(ConversationalTriggers)
        /\ fraud_categories["professional_boundaries"] = ExpectedBucket(BoundaryTriggers)

C5_Witness ==
    /\ evaluator = "standard"
    /\ pc # "init"
    /\ ground_truth_data = <<QAPair(Txt.happened, Txt.legal), QAPair(Txt.hello, Txt.thanks)>>
    /\ fraud_categories["fraud_typology"] = <<Txt.legal>>
    /\ fraud_categories["professional_boundaries"] = <<Txt.legal>>
    /\ fraud_categories["uk_knowledge"] = << >>
    /\ fraud_categories["conversational_quality"] = << >>

MappingRules == <<
    [substring |-> <<"u","k","-","s","p","e","c","i","f","i","c"," ","k","n","o","w","l","e","d","g","e">>, key |-> "uk_knowledge"],
    [substring |-> <<"c","o","n","v","e","r","s","a","t","i","o","n","a","l"," ","q","u","a","l","i","t","y">>, key |-> "conversational_quality"],
    [substring |-> <<"c","y","b","e","r"," ","f","r","a","u","d"," ","t","y","p","o","l","o","g","y">>, key |-> "fraud_typology"],
    [substring |-> <<"p","r","o","f","e","s","s","i","o","n","a","l"," ","b","o","u","n","d","a","r","i","e","s">>, key |-> "professional_boundaries"] >>

\* the key of the earliest rule whose substring the lower-cased label has, else "general"
ExpectedKey(label) ==
    LET hits == {k \in 1..Len(MappingRules) : HasSubstring(MappingRules[k].substring, Lower(label))}
    IN  IF hits = {} THEN "general"
        ELSE MappingRules[CHOOSE k \in hits : \A h \in hits : k <= h].key

\* the category keys the scoring loop has logged, one per question
MappedKeys ==
    LET entries == SelectSeq(log, LAMBDA e : e.event = "evaluating")
    IN  [i \in 1..Len(entries) |-> entries[i].detail[2]]

\* C6: _determine_category_mapping is case-insensitive and first-match-wins over the
\* rule order; "UK-Specific Knowledge Assessment" maps to uk_knowledge, a label with
\* none of the rule substrings to general, and the result is one of the five keys.
C6_MappingFirstMatch ==
    (evaluator = "standard" /\ pc = "scoring") =>
        /\ Len(MappedKeys) = qi
        /\ \A i \in 1..qi :
              LET label == evaluation_data[i].category
              IN  /\ MappedKeys[i] = ExpectedKey(label)
                  /\ MappedKeys[i] \in CategoryKeys
                  /\ label = Label.uk => MappedKeys[i] = "uk_knowledge"
                  /\ \A mode \in CaseModes :
                        determine_category_mapping(Recase(mode, label)) = MappedKeys[i]

C6_Witness ==
    /\ evaluator = "standard"
    /\ qi = 2
    /\ evaluation_data[1].category = Label.prof_uk
    /\ evaluation_data[2].category = Label.other
    /\ MappedKeys = <<"uk_knowledge", "general">>

\* C7: extract_entities returns a mapping with exactly the keys phone_numbers,
\* organizations and procedures; for the empty text the three sets are empty.
C7_ThreeKeysAlways ==
    (entity_call.op = "extract_entities" /\ entity_call.returned) =>
        /\ DOMAIN entity_call.entities = {"phone_numbers", "organizations", "procedures"}
        /\ entity_call.text = << >> =>
              \A category \in DOMAIN entity_call.entities : entity_call.entities[category] = {}

C7_Witness ==
    /\ entity_call.op = "extract_entities"
    /\ entity_call.returned
    /\ entity_call.text = << >>
    /\ entity_call.entities = [phone_numbers |-> {}, organizations |-> {}, procedures |-> {}]

\* C8: every element of the phone_numbers set extract_entities returns is one of the
\* canonical phone-number strings, whatever the spacing of the number in the text.
C8_PhonesAreCanonical ==
    (entity_call.op = "extract_entities" /\ entity_call.returned) =>
        entity_call.entities["phone_numbers"] \subseteq critical_entities["phone_numbers"]

\* C9: an organizations or procedures term is in the result exactly when it occurs as a
\* substring of the lower-cased text, so a re-casing of the text gives the same sets.
C9_TermsIffInLoweredText ==
    (entity_call.op = "extract_entities" /\ entity_call.returned) =>
        \A category \in {"organizations", "procedures"} :
            /\ entity_call.entities[category] =
                  {term \in critical_entities[category] :
                      HasSubstring(term, Lower(entity_call.text))}
            /\ entity_call.recased_entities[category] = entity_call.entities[category]

C9_Witness ==
    /\ entity_call.op = "extract_entities"
    /\ entity_call.returned
    /\ entity_call.text = EntityText.fca
    /\ entity_call.recased = Lower(EntityText.fca)
    /\ entity_call.entities["organizations"] = {<<"f","c","a">>,
        <<"p","s","r">>}
    /\ entity_call.entities["procedures"] = {<<"a","p","p"," ","c","o","d","e">>}

\* the questions whose pair of raw scores for the dimension is not the missing marker
GradedFor(dim) ==
    SelectSeq(grading_data, LAMBDA row : ~(row[dim][1] = 0 /\ row[dim][2] = 0))

\* C10: a question whose baseline and fine-tuned raw scores for a dimension are both 0
\* is left out of that dimension's means, standard deviations, improved / declined /
\* unchanged counts and total_questions: the metrics are those of the table without it.
C10_MissingExcluded ==
    (evaluator = "manual" /\ pc = "metrics") =>
        \A dim \in DimensionSet :
            LET graded == GradedFor(dim)
                n == Len(graded)
                baselines == [i \in 1..n |-> graded[i][dim][1]]
                unchanged == SelectSeq(graded, LAMBDA row : row[dim][1] = row[dim][2])
            IN  /\ metrics[dim] = DimensionMetrics(process_data(graded), dim)
                /\ metrics[dim].total_questions = n
                /\ metrics[dim].questions_unchanged = Len(unchanged)
                /\ n > 0 => metrics[dim].baseline_mean * n = SumSeq(baselines) * One
                /\ n = 0 => IsNaN(metrics[dim].baseline_mean)

C10_Witness ==
    /\ evaluator = "manual"
    /\ pc = "metrics"
    /\ Len(grading_data) = 3
    /\ Len(GradedFor("UK_Contact_Accuracy")) = 2
    /\ metrics["UK_Contact_Accuracy"].total_questions = 2
    /\ metrics["UK_Contact_Accuracy"].questions_unchanged = 1

\* C11: for every dimension questions_improved + questions_declined +
\* questions_unchanged equals total_questions, the number of questions whose improvement
\* is not missing, and a question whose two scores are equal is counted as unchanged only.
C11_CountsSumToTotal ==
    (evaluator = "manual" /\ pc = "metrics") =>
        \A dim \in DimensionSet :
            LET graded == GradedFor(dim)
                m == metrics[dim]
            IN  /\ m.questions_improved + m.questions_declined + m.questions_unchanged
                      = m.total_questions
                /\ m.total_questions = Len(graded)
                /\ m.questions_improved =
                      Len(SelectSeq(graded, LAMBDA row : row[dim][2] > row[dim][1]))
                /\ m.questions_declined =
                      Len(SelectSeq(graded, LAMBDA row : row[dim][2] < row[dim][1]))
                /\ m.questions_unchanged =
                      Len(SelectSeq(graded, LAMBDA row : row[dim][2] = row[dim][1]))

C11_Witness ==
    /\ evaluator = "manual"
    /\ pc = "metrics"
    /\ metrics["UK_Contact_Accuracy"].questions_improved = 1
    /\ metrics["UK_Contact_Accuracy"].questions_declined = 1
    /\ metrics["UK_Contact_Accuracy"].questions_unchanged = 1
    /\ metrics["UK_Contact_Accuracy"].total_questions = 3

\* C20: a dimension with no valid (non-missing) improvement value reports its
\* improvement consistency as an undefined value, never as 0.
C20_NoValidConsistencyUndefined ==
    (evaluator = "manual" /\ pc = "metrics") =>
        \A dim \in DimensionSet :
            GradedFor(dim) = << >> =>
                /\ IsNaN(metrics[dim].improvement_consistency_pct)
                /\ metrics[dim].improvement_consistency_pct # 0

\* the number of results whose field is strictly positive
Improved(rs, field) == Len(SelectSeq(rs, LAMBDA r : r[field] > 0))

\* the consistency values a finished standard or domain run reports, each with the
\* number of improved results and the number of results it is computed from
ReportedConsistencies ==
    IF evaluator = "standard" /\ pc = "done"
    THEN {[value |-> summary.summary_statistics.best_match_scores.improvement_consistency,
           improved |-> Improved(results, "best_match_improvement"),
           total |-> Len(results)],
          [value |-> summary.summary_statistics.average_alignment_scores.improvement_consistency,
           improved |-> Improved(results, "avg_alignment_improvement"),
           total |-> Len(results)]}
    ELSE IF evaluator = "domain" /\ pc \in {"returned", "saved"} /\ summary # EmptyDict
    THEN {[value |-> summary.summary_statistics.improvement_consistency,
           improved |-> Improved(results, "improvement"),
           total |-> Len(results)]}
    ELSE {}

\* the consistency values calculated metrics of the manual analyzer report
ReportedManualConsistencies ==
    IF evaluator = "manual" /\ pc = "metrics"
    THEN {[value |-> metrics[dim].improvement_consistency_pct,
           improved |-> metrics[dim].questions_improved,
           total |-> metrics[dim].total_questions] : dim \in DimensionSet}
    ELSE {}

\* C12 as stated: in every evaluator variant the reported improvement consistency is the
\* fraction improved / total, so that consistency x total is the number of improved
\* questions.
C12_ConsistencyIsFraction ==
    \A c \in ReportedConsistencies \cup ReportedManualConsistencies :
        c.total > 0 => c.value * c.total = c.improved * One

\* C12 amended: the standard and domain evaluators report, for a non-empty result list,
\* the fraction (results with improvement > 0) / (results); the manual analyzer reports
\* the same ratio as a percentage, 100 x improved / total_questions, when
\* total_questions > 0.
C12_ConsistencyFractionOrPercent ==
    /\ \A c \in ReportedConsistencies :
          c.total > 0 => c.value * c.total = c.improved * One
    /\ \A c \in ReportedManualConsistencies :
          c.total > 0 => c.value * c.total = 100 * c.improved * One

C12_Witness ==
    /\ evaluator = "domain"
    /\ pc = "saved"
    /\ Len(results) = 2
    /\ summary.summary_statistics.improvement_consistency = One \div 2

\* x * m < y * k, made on quotients and remainders to stay in range
ScaledLess(x, m, y, k) ==
    LET a == x \div k
        b == y \div m
    IN  a < b \/ (a = b /\ m * (x % k) < k * (y % m))

\* the band of an effect size by absolute value: below 0.2, below 0.5, below 0.8, above
Band(d) ==
    IF d.class = "inf" THEN "large"
    ELSE IF ScaledLess(d.num, 25, d.den, 1) THEN "negligible"
    ELSE IF ScaledLess(d.num, 4, d.den, 1) THEN "small"
    ELSE IF ScaledLess(d.num, 25, d.den, 16) THEN "medium"
    ELSE "large"

\* the band named by an interpretation text of the standard evaluator
BandOfInterpretation(text) ==
    IF text = "Large Effect" THEN "large"
    ELSE IF text = "Medium Effect" THEN "medium"
    ELSE IF text = "Small Effect" THEN "small"
    ELSE "negligible"

\* C13: the effect-size label of a Cohen's d is negligible for |d| < 0.2, small for
\* 0.2 <= |d| < 0.5, medium for 0.5 <= |d| < 0.8 and large for |d| >= 0.8, both as
\* stored by the domain-weighted summary and as interpreted by the standard evaluator.
C13_EffectSizeBands ==
    /\ (evaluator = "domain" /\ pc = "saved") =>
          LET sig == summary.summary_statistics.statistical_significance
          IN  sig.cohens_d.class # "nan" => sig.effect_size = Band(sig.cohens_d)
    /\ (evaluator = "standard" /\ pc = "done") =>
          \A block \in {"best_match_scores", "average_alignment_scores"} :
              LET d == summary.summary_statistics[block].cohens_d
              IN  d.class # "nan" => BandOfInterpretation(EffectInterpretation(d)) = Band(d)

\* the Cohen's d values a finished run reports over a non-empty result list, each with
\* the difference of the sums (n times the difference of the means) of its metric
ReportedEffectSizes ==
    IF results = << >> THEN {}
    ELSE IF evaluator = "standard" /\ pc = "done"
    THEN {[d |-> summary.summary_statistics.best_match_scores.cohens_d,
           diff |-> SumSeq(Field(results, "finetuned_best_match"))
                       - SumSeq(Field(results, "baseline_best_match"))],
          [d |-> summary.summary_statistics.average_alignment_scores.cohens_d,
           diff |-> SumSeq(Field(results, "finetuned_avg_alignment"))
                       - SumSeq(Field(results, "baseline_avg_alignment"))]}
    ELSE IF evaluator = "domain" /\ pc = "saved"
    THEN {[d |-> summary.summary_statistics.statistical_significance.cohens_d,
           diff |-> SumSeq(Field(results, "finetuned_composite"))
                       - SumSeq(Field(results, "baseline_composite"))]}
    ELSE {}

\* C14: for every non-empty result collection the reported Cohen's d is positive, zero
\* or negative as (fine-tuned mean - baseline mean) of its metric is.
C14_CohensDSignMatchesMeans ==
    \A e \in ReportedEffectSizes :
        /\ e.d.class # "nan"
        /\ e.diff > 0 => e.d.sign = 1
        /\ e.diff = 0 => e.d.sign = 0
        /\ e.diff < 0 => e.d.sign = 0 - 1

\* the run is over, its result list is not empty, and every question it was given has
\* the same text as baseline and as fine-tuned response
IdenticalResponsesRun ==
    /\ \/ evaluator = "standard" /\ pc = "done"
       \/ evaluator = "domain" /\ pc = "saved"
    /\ results # << >>
    /\ \A i \in 1..Len(evaluation_data) : evaluation_data[i].BM = evaluation_data[i].FM

\* the blocks of statistics a finished run reports
ReportedBlocks ==
    IF evaluator = "standard"
    THEN {[mean_improvement |-> summary.summary_statistics[block].mean_improvement,
           improvement_consistency |-> summary.summary_statistics[block].improvement_consistency,
           cohens_d |-> summary.summary_statistics[block].cohens_d,
           t_statistic |-> summary.summary_statistics[block].t_statistic] :
              block \in {"best_match_scores", "average_alignment_scores"}}
    ELSE {[mean_improvement |-> summary.summary_statistics.mean_improvement,
           improvement_consistency |-> summary.summary_statistics.improvement_consistency,
           cohens_d |-> summary.summary_statistics.statistical_significance.cohens_d,
           t_statistic |-> summary.summary_statistics.statistical_significance.t_statistic]}

\* C15: with identical baseline and fine-tuned responses for every question the summary
\* reports mean_improvement 0, improvement_consistency 0, Cohen's d 0 and a t statistic
\* that is 0, not a nan passed through to the output.
C15_IdenticalResponsesGiveZeros ==
    IdenticalResponsesRun =>
        \A b \in ReportedBlocks :
            /\ b.mean_improvement = 0
            /\ b.improvement_consistency = 0
            /\ b.cohens_d.class = "finite" /\ b.cohens_d.sign = 0
            /\ b.t_statistic.class # "nan"


\* the first record with the id among the records
FirstWithId(records, id) ==
    records[CHOOSE i \in 1..Len(records) :
                /\ records[i].question_id = id
                /\ \A j \in 1..(i - 1) : records[j].question_id # id]

\* the built-in questions come first and unchanged, and no record added after them has
\* the id of a built-in question
BaseKeptAndNotRepeated(base, merged) ==
    /\ Len(merged) >= Len(base)
    /\ SubSeq(merged, 1, Len(base)) = base
    /\ \A i \in (Len(base) + 1)..Len(merged), j \in 1..Len(base) :
          merged[i].question_id # base[j].question_id

\* every id once, and with the record loaded first
EachIdOnceFirstLoaded(loaded, merged) ==
    /\ \A i, j \in 1..Len(merged) :
          merged[i].question_id = merged[j].question_id => i = j
    /\ \A i \in 1..Len(merged) : merged[i] = FirstWithId(loaded, merged[i].question_id)

C16_BuiltInPart ==
    [][(evaluator = "standard" /\ pc = "constructed" /\ question_file.found) =>
          BaseKeptAndNotRepeated(evaluation_data, evaluation_data')]_vars


\* the id of an input question: question_id in the standard run, question_no in the
\* domain run
InputId(item) == IF evaluator = "domain" THEN item.question_no ELSE item.question_id

\* the results are one record for each question the loop has consumed, in their order
OneResultPerQuestion ==
    /\ Len(results) = qi
    /\ \A i \in 1..qi : results[i].question_id = InputId(evaluation_data[i])

\* C17: in every evaluator run the collected results hold exactly one record for each
\* input question, in input question order, also when no reference answer matches the
\* question: after each pass of the loop, and so at its end, no question was skipped,
\* duplicated or reordered.
C17_OneResultPerQuestionInOrder ==
    evaluator \in {"standard", "domain"} => OneResultPerQuestion

\* the part of C17 about the standard evaluator, which never skips a question
C17_StandardPart ==
    evaluator = "standard" => OneResultPerQuestion


\* a message of the level was logged
Logged(level) == \E i \in 1..Len(log) : log[i].level = level

\* C18: when an input file is missing (the reference corpus in either evaluator, or
\* Models_Responses.json in the domain-weighted evaluator) the run logs the problem and
\* goes on with an empty input, and no exception leaves the load step or the stages after
\* it; the corpus is the content of the first candidate path that exists.
C18_MissingInputIsLoggedAndEmpty ==
    evaluator \in {"standard", "domain"} =>
        /\ pc # "raised"
        /\ pc # "init" =>
              /\ FirstFound(dataset) = 0 => (ground_truth_data = << >> /\ Logged("error"))
              /\ \A i \in 1..Len(dataset) :
                    (dataset[i].found /\ \A j \in 1..(i - 1) : ~dataset[j].found)
                        => ground_truth_data = dataset[i].data
              /\ (evaluator = "domain" /\ ~question_file.found) =>
                    (evaluation_data = << >> /\ (Logged("error") \/ Logged("warning")))

\* the part of C18 about the reference corpus, which both load functions satisfy
C18_CorpusPart ==
    (evaluator \in {"standard", "domain"} /\ pc \notin {"init", "raised"}) =>
        /\ FirstFound(dataset) = 0 => (ground_truth_data = << >> /\ Logged("error"))
        /\ \A i \in 1..Len(dataset) :
              (dataset[i].found /\ \A j \in 1..(i - 1) : ~dataset[j].found)
                  => ground_truth_data = dataset[i].data


\* the metrics of the summary of the domain-weighted evaluator
DomainMetricKeys ==
    {"total_evaluations", "baseline_semantic_mean", "finetuned_semantic_mean",
     "baseline_entity_mean", "finetuned_entity_mean", "baseline_composite_mean",
     "finetuned_composite_mean", "mean_improvement", "improvement_std",
     "improvement_consistency", "statistical_significance"}

\* the run is over and had an empty corpus, or no question obtained a reference
EndedWithIncompleteInputs ==
    \/ /\ evaluator = "standard"
       /\ pc = "done"
       /\ ground_truth_data = << >>
    \/ /\ evaluator = "domain"
       /\ question_file.found
       /\ pc \in {"returned", "saved", "failed", "reported", "no report"}
       /\ ground_truth_data = << >> \/ results = << >>

\* C19: a run whose inputs are incomplete (an empty corpus, or no question that obtains a
\* reference) still ends with the complete summary, every metric present, and with its
\* output written: it never ends with an empty summary or with the output step skipped.
C19_IncompleteInputsStillReport ==
    EndedWithIncompleteInputs =>
        /\ summary # EmptyDict
        /\ DOMAIN summary.summary_statistics =
              (IF evaluator = "domain" THEN DomainMetricKeys
               ELSE {"sample_size", "best_match_scores", "average_alignment_scores"})
        /\ pc \notin {"failed", "no report"}

\* the part of C19 about the standard evaluator, whose summary is always complete
C19_StandardPart ==
    (evaluator = "standard" /\ pc = "done") =>
        DOMAIN summary.summary_statistics =
            {"sample_size", "best_match_scores", "average_alignment_scores"}


\* the similarity of a question to the instruction of every pair of the corpus
InstructionSimilarities(question, ground_truth) ==
    [k \in 1..Len(ground_truth) |->
        cosine_similarity(Encode(question), Encode(ground_truth[k].instruction))]

\* the first index at which a non-empty array has its maximum
FirstMaximum(s) ==
    CHOOSE k \in 1..Len(s) :
        /\ \A j \in 1..Len(s) : s[j] <= s[k]
        /\ \A j \in 1..(k - 1) : s[j] < s[k]

\* the questions the loop of the domain run has consumed, with the reference each one
\* obtained: its result carries it, and a question without result obtained ""
ObtainedReference(i) ==
    LET id == evaluation_data[i].question_no
    IN  IF \E r \in 1..Len(results) : results[r].question_id = id
        THEN results[CHOOSE r \in 1..Len(results) : results[r].question_id = id].reference_response
        ELSE << >>

\* C21: for every non-empty corpus, also one where every similarity is 0 or negative,
\* find_best_reference_match returns the output of the pair whose instruction is most
\* similar to the question, the first such pair in corpus order on ties.
C21_BestReferenceIsFirstMaximum ==
    (evaluator = "domain" /\ ground_truth_data # << >>) =>
        \A i \in 1..qi :
            LET s == InstructionSimilarities(evaluation_data[i].question, ground_truth_data)
            IN  ObtainedReference(i) = ground_truth_data[FirstMaximum(s)].output

\* the part of C21 that the loop satisfies: a corpus with a similarity above 0
C21_PositivePart ==
    (evaluator = "domain" /\ ground_truth_data # << >>) =>
        \A i \in 1..qi :
            LET s == InstructionSimilarities(evaluation_data[i].question, ground_truth_data)
            IN  s[FirstMaximum(s)] > 0 =>
                    ObtainedReference(i) = ground_truth_data[FirstMaximum(s)].output


\* the bucket and the similarities of the i-th evaluated question's fine-tuned response
BucketOf(i) == RelevantSources(determine_category_mapping(results[i].category))
FinetunedSimilarities(i) == Similarities(results[i].finetuned_response, BucketOf(i))

\* the scores are the maximum, the mean, the count above 0.7 and the first index of the
\* maximum of the similarities
AlignmentOf(scores, s) ==
    /\ \E k \in 1..Len(s) : s[k] = scores.best_match_score
    /\ \A k \in 1..Len(s) : s[k] <= scores.best_match_score
    /\ Len(s) * scores.average_alignment <= SumSeq(s)
    /\ SumSeq(s) < Len(s) * (scores.average_alignment + 1)
    /\ scores.source_coverage = Len(SelectSeq(s, LAMBDA x : 10 * x > 7 * One))
    /\ scores.best_reference_idx \in 0..(Len(s) - 1)
    /\ s[scores.best_reference_idx + 1] = scores.best_match_score
    /\ \A k \in 1..scores.best_reference_idx : s[k] < scores.best_match_score

\* C22: for a non-empty bucket evaluate_response_alignment returns the maximum similarity
\* as best_match_score, the mean similarity as average_alignment, the number of
\* similarities strictly greater than 0.7 as source_coverage, and the lowest index that
\* attains the maximum as best_reference_idx; the result of the question stores them.
C22_AlignmentScores ==
    evaluator = "standard" =>
        \A i \in 1..Len(results) :
            LET category == determine_category_mapping(results[i].category)
                bucket == RelevantSources(category)
                finetuned == evaluate_response_alignment(results[i].finetuned_response,
                                                         category)
                baseline == evaluate_response_alignment(results[i].baseline_response,
                                                        category)
            IN  bucket # << >> =>
                    /\ AlignmentOf(finetuned,
                           << >> \o Similarities(results[i].finetuned_response, bucket))
                    /\ AlignmentOf(baseline,
                           << >> \o Similarities(results[i].baseline_response, bucket))
                    /\ results[i].finetuned_best_match = finetuned.best_match_score
                    /\ results[i].finetuned_avg_alignment = finetuned.average_alignment
                    /\ results[i].baseline_best_match = baseline.best_match_score
                    /\ results[i].baseline_avg_alignment = baseline.average_alignment
                    /\ results[i].best_reference_match =
                          Truncate(bucket[finetuned.best_reference_idx + 1])

\* the source_coverage of the i-th evaluated question's fine-tuned response
FinetunedCoverage(i) ==
    evaluate_response_alignment(results[i].finetuned_response,
                                determine_category_mapping(results[i].category)).source_coverage

\* a question was scored against a bucket of two different references that tie at the
\* maximum; a similarity equal to 0.7 was not counted, and one above 0.7 was
C22_Witness ==
    /\ evaluator = "standard"
    /\ \E i \in 1..Len(results) :
          LET s == FinetunedSimilarities(i)
          IN  /\ Len(s) = 2
              /\ s[1] = s[2]
              /\ BucketOf(i)[1] # BucketOf(i)[2]
              /\ results[i].best_reference_match = BucketOf(i)[1]
    /\ \E i \in 1..Len(results) :
          /\ \E k \in 1..Len(FinetunedSimilarities(i)) :
                10 * FinetunedSimilarities(i)[k] = 7 * One
          /\ FinetunedCoverage(i) = 0
    /\ \E i \in 1..Len(results) : FinetunedCoverage(i) > 0


\* the recall of a reference set: 1 for an empty reference set, in units of 1/One
RecallOf(response_set, reference_set) ==
    IF reference_set = {} THEN One
    ELSE (Cardinality(response_set \cap reference_set) * One) \div Cardinality(reference_set)

\* composite is 0.6 * semantic + 0.4 * entity, and entity is the mean over the three
\* categories of the recall of the reference entities, rounded down to a unit
CompositeOf(composite, semantic, entity, entities, reference) ==
    LET total == RecallOf(entities["phone_numbers"], reference["phone_numbers"])
                 + RecallOf(entities["organizations"], reference["organizations"])
                 + RecallOf(entities["procedures"], reference["procedures"])
    IN  /\ 3 * entity <= total
        /\ total < 3 * (entity + 1)
        /\ 10 * composite <= 6 * semantic + 4 * entity
        /\ 6 * semantic + 4 * entity < 10 * (composite + 1)

\* C23: in evaluate_response_pair, for the baseline and for the fine-tuned response,
\* composite = 0.6 * semantic similarity + 0.4 * the arithmetic mean of the three
\* per-category entity accuracy scores, a category counting the same whether or not its
\* reference set is empty.
C23_CompositeIsWeightedSum ==
    evaluator = "domain" =>
        \A i \in 1..Len(results) :
            /\ CompositeOf(results[i].baseline_composite, results[i].baseline_semantic,
                           results[i].baseline_entity, results[i].baseline_entities,
                           results[i].reference_entities)
            /\ CompositeOf(results[i].finetuned_composite, results[i].finetuned_semantic,
                           results[i].finetuned_entity, results[i].finetuned_entities,
                           results[i].reference_entities)

\* a result whose reference has entities in one category and none in another, whose
\* fine-tuned entity score lies strictly between 0 and 1 and differs from the semantic
\* score
C23_Witness ==
    /\ evaluator = "domain"
    /\ \E i \in 1..Len(results) :
          /\ \E c \in DOMAIN results[i].reference_entities :
                results[i].reference_entities[c] = {}
          /\ \E c \in DOMAIN results[i].reference_entities :
                results[i].reference_entities[c] # {}
          /\ results[i].finetuned_entity > 0
          /\ results[i].finetuned_entity < One
          /\ results[i].finetuned_semantic # results[i].finetuned_entity
          /\ results[i].finetuned_semantic # 0


\* the sum of the weights of the terms of one table that are pieces of the text
TableImportance(table, text) ==
    LET RECURSIVE Sum(_)
        Sum(terms) ==
            IF terms = {} THEN 0
            ELSE LET term == CHOOSE t \in terms : TRUE
                 IN  (IF HasSubstring(term, text) THEN table[term] ELSE 0)
                     + Sum(terms \ {term})
    IN  Sum(DOMAIN table)

\* C24: the importance score of a text in apply_domain_weights is the sum of the weights
\* of every term of the five weight tables that occurs as a substring of the lowercased
\* text: each matching term counts once however often it occurs, terms that overlap or
\* contain one another all count, and no weight is lost when the tables are merged.
C24_ImportanceIsSumOfMatchingWeights ==
    (entity_call.op = "apply_domain_weights" /\ entity_call.returned) =>
        LET text_lower == Lower(entity_call.text)
        IN  entity_call.importance_score =
                TableImportance(domain_weights.critical_contacts, text_lower)
                + TableImportance(domain_weights.fraud_types, text_lower)
                + TableImportance(domain_weights.regulatory_terms, text_lower)
                + TableImportance(domain_weights.empathy_markers, text_lower)
                + TableImportance(domain_weights.action_words, text_lower)

\* a text in which "report" occurs twice and two terms of different tables overlap:
\* 2.0 + 3.0 + 2.5
C24_Witness ==
    /\ entity_call.op = "apply_domain_weights"
    /\ entity_call.returned
    /\ entity_call.text = EntityText.weights
    /\ entity_call.importance_score = 75


RenderingStarted ==
    \E i \in 1..Len(log) : log[i].event = "generating visualizations"

\* the stage of the run that writes a message: 1 corpus load, 2 question merge,
\* 3 scoring, 4 rendering
StageOf(entry) ==
    IF entry.event \in {"no ground truth", "loaded ground truth"} THEN 1
    ELSE IF entry.event \in {"complete dataset", "partial data"} THEN 2
    ELSE IF entry.event \in {"evaluating", "no sources"} THEN 3
    ELSE 4

\* the order of the stages as the state shows it: nothing is scored before the corpus is
\* loaded and its buckets are built, statistics exist only over one result per question,
\* and rendering has statistics to work from
StagesInOrder ==
    /\ (qi > 0 \/ results # << >>) => pc \notin {"init", "constructed"}
    /\ log # << >> => StageOf(log[1]) = 1
    /\ \A i, j \in 1..Len(log) : i < j => StageOf(log[i]) <= StageOf(log[j])
    /\ Cardinality({i \in 1..Len(log) : log[i].event = "evaluating"}) = Len(results)
    /\ pc \in {"init", "constructed", "scoring"} => summary = None /\ ~RenderingStarted
    /\ pc \in {"summarized", "done", "raised"} =>
          /\ qi = Len(evaluation_data)
          /\ Len(results) = Len(evaluation_data)
          /\ "summary_statistics" \in DOMAIN summary
    /\ RenderingStarted => pc \in {"done", "raised"}

\* C26: a standard run loads the corpus and builds the buckets, then scores every
\* question, then takes the summary statistics, then renders; the statistics are taken
\* exactly once, over the complete result list, and rendering starts only when they exist.
C26_PipelineOrder ==
    [][evaluator = "standard" =>
          /\ StagesInOrder
          /\ StagesInOrder'
          /\ results' # results => pc = "scoring" /\ summary = None /\ ~RenderingStarted
          /\ (pc' = "summarized" /\ pc # "summarized") =>
                /\ summary = None
                /\ Len(results) = Len(evaluation_data)
                /\ results' = results
          /\ pc \in {"summarized", "done", "raised"} =>
                /\ summary'.summary_statistics = summary.summary_statistics
                /\ results' = results
          /\ (RenderingStarted' /\ ~RenderingStarted) => pc = "summarized"]_vars

\* a run over two questions has rendered the statistics of its two results
C26_Witness ==
    /\ evaluator = "standard"
    /\ pc = "done"
    /\ Len(results) = 2
    /\ RenderingStarted
    /\ summary.evaluation_results = results


\* np.std(xs)**2 of a column of grades, as the summaries of the standard and the
\* domain-weighted evaluator take it: NpStdSquared of the grades in fixed point, with
\* One cancelled against the scale of the grades
NpStdSquaredOfGrades(xs) ==
    IF xs = << >> THEN NaN ELSE (SquaredDeviation(xs) * One) \div (Len(xs) * Len(xs))

\* the standard deviations the manual-grading metrics report with the columns they were
\* taken of
ReportedGradeDeviations ==
    IF evaluator = "manual" /\ pc = "metrics"
    THEN UNION {{[std |-> metrics[dim].baseline_std,
                  xs |-> DropNa(Column(results_df, dim, "Baseline"))],
                 [std |-> metrics[dim].finetuned_std,
                  xs |-> DropNa(Column(results_df, dim, "Finetuned"))],
                 [std |-> metrics[dim].improvement_std,
                  xs |-> DropNa(Column(results_df, dim, "Improvement"))]} :
                dim \in DimensionSet}
    ELSE {}

\* C27: every evaluator takes its standard deviations with the same divisor, so a column
\* of two or more grades has in the manual-grading metrics the standard deviation that
\* the standard and the domain-weighted summaries give the same array.
C27_SameStdConvention ==
    \A e \in ReportedGradeDeviations :
        Len(e.xs) >= 2 => e.std = NpStdSquaredOfGrades(e.xs)

\* what holds instead: the manual metrics divide by n - 1 where the others divide by n
C27_ManualUsesSampleStd ==
    \A e \in ReportedGradeDeviations :
        Len(e.xs) >= 2 =>
            /\ e.std = (SquaredDeviation(e.xs) * One) \div (Len(e.xs) * (Len(e.xs) - 1))
            /\ e.std >= NpStdSquaredOfGrades(e.xs)
            /\ SquaredDeviation(e.xs) > 0 => e.std > NpStdSquaredOfGrades(e.xs)


\* the statistical_significance block of the results file the visualizer reads
SavedSignificance == summary.summary_statistics.statistical_significance

\* C28: the effect_size label the domain-weighted summary saves is always "small",
\* "medium" or "large", for every Cohen's d (zero, below 0.2 and NaN included), so the
\* lookup of create_performance_comparison in its table of labels never fails.
C28_EffectSizeLabelIsKey ==
    evaluator = "domain" =>
        /\ pc # "key error"
        /\ pc \in {"saved", "reported", "compared"} =>
              /\ SavedSignificance.effect_size \in {"small", "medium", "large"}
              /\ SavedSignificance.effect_size \in DOMAIN EffectSizeValue

\* the comparison has been drawn from a file whose Cohen's d is NaN, labelled "small"
C28_Witness ==
    /\ evaluator = "domain"
    /\ pc = "compared"
    /\ SavedSignificance.cohens_d.class = "nan"
    /\ SavedSignificance.effect_size = "small"


\* stored is reference itself when reference has at most 200 characters, and otherwise
\* its first 200 characters followed by three dots
StoredFormOf(stored, reference) ==
    IF Len(reference) <= 200 THEN stored = reference
    ELSE /\ Len(stored) = 203
         /\ \A k \in 1..200 : stored[k] = reference[k]
         /\ \A k \in 201..203 : stored[k] = "."

\* C29: for a non-empty bucket the index that picks best_reference_match lies within the
\* bucket (0 <= idx < length) and the stored text is the reference at that index, as it
\* is when it has at most 200 characters and cut to 200 characters plus "..." otherwise;
\* for an empty bucket nothing is indexed and the stored text is "".
C29_BestReferenceIndexAndStoredForm ==
    evaluator = "standard" =>
        \A i \in 1..Len(results) :
            LET category == determine_category_mapping(results[i].category)
                relevant_sources == RelevantSources(category)
                finetuned_scores ==
                    evaluate_response_alignment(results[i].finetuned_response, category)
            IN  IF relevant_sources = << >>
                THEN results[i].best_reference_match = << >>
                ELSE /\ finetuned_scores.best_reference_idx >= 0
                     /\ finetuned_scores.best_reference_idx < Len(relevant_sources)
                     /\ StoredFormOf(results[i].best_reference_match,
                            relevant_sources[finetuned_scores.best_reference_idx + 1])

\* the run has stored a reference cut to 200 characters that it found at index 1 of a
\* bucket of two, and in another result a reference short enough to be stored whole
\* or, for an empty bucket, ""
C29_Witness ==
    /\ evaluator = "standard"
    /\ \E i \in 1..Len(results) :
          /\ Len(BucketOf(i)) = 2
          /\ BucketOf(i)[2] = LongAdvice
          /\ BucketOf(i)[1] # LongAdvice
          /\ Len(results[i].best_reference_match) = 203
          /\ results[i].best_reference_match # LongAdvice
    /\ \E i \in 1..Len(results) :
          \/ /\ BucketOf(i) # << >>
             /\ results[i].best_reference_match
                   \in {BucketOf(i)[k] : k \in 1..Len(BucketOf(i))}
          \/ /\ BucketOf(i) = << >>
             /\ results[i].best_reference_match = << >>

\* the run has stored "" for a question whose bucket is empty
C29_EmptyBucketCase ==
    /\ evaluator = "standard"
    /\ \E i \in 1..Len(results) :
          BucketOf(i) = << >> /\ results[i].best_reference_match = << >>

\* the run has stored a short reference whole that it found at index 1
C29_WholeCase ==
    /\ evaluator = "standard"
    /\ \E i \in 1..Len(results) :
          /\ Len(BucketOf(i)) = 2
          /\ BucketOf(i)[2] # BucketOf(i)[1]
          /\ results[i].best_reference_match = BucketOf(i)[2]


\* entities a response could have in addition: the known entities of the category and
\* one that no reference has
FurtherEntities(category) == critical_entities[category] \cup {<<"x">>}

====
